---- MODULE Spec2Model ----
(***************************************************************************)
(* FTMA (fault-tolerant masked aggregation): the prime field, Shamir       *)
(* sharing of the personal masks, and the coordinator's RegisterClient and *)
(* Finalize, modelled from src/ftma/core.                                  *)
(*                                                                         *)
(* Scaling.  TLC's integers are 32 bit, so the field is a prime field of   *)
(* small order (kModulus) instead of 2^61 - 1; every operation is the one  *)
(* of field.h, taken modulo kModulus.  A double metric is a fixed-point    *)
(* number: an integer numerator over MetricDenom.  std::mt19937_64 is a    *)
(* small deterministic generator (PrngSeed / PrngNext / PrngDist): what    *)
(* the model keeps of it is that the draws are a function of the seed and  *)
(* of the number of draws made so far.  The 64-bit words of MixSeed are    *)
(* kept at full width, as four 16-bit limbs, least significant first.      *)
(*                                                                         *)
(* GW-DE (dual-entropy watermark), modelled from src/gwde: texts are byte  *)
(* strings, images are byte buffers with their shape, the metadata header  *)
(* has its 24 bytes (768 samples of an image), and both hashes are         *)
(* computed at their full 64 bits.                                         *)
(***************************************************************************)
EXTENDS Integers, Sequences, FiniteSets, TLC

VARIABLES
  num_clients_,   \* FtmaCoordinator::num_clients_
  threshold_,     \* FtmaCoordinator::threshold_
  clients_,       \* FtmaCoordinator::clients_ : id -> ClientState
  metric_dimension_, \* FtmaCoordinator::metric_dimension_
  scale_,         \* FtmaCoordinator::scale_
  prng_,          \* FtmaCoordinator::prng_ (state of the generator)
  last,           \* the call on the coordinator whose outcome the caller holds
  shamir,         \* a Shamir object with one ShareVector / Reconstruct run
  gwde,           \* a GW-DE caller: its payload and what Embed / Detect returned
  caller          \* what the calling program holds beside the last outcome

vars == <<num_clients_, threshold_, metric_dimension_, scale_, clients_, prng_,
          last, shamir, gwde, caller>>

-----------------------------------------------------------------------------
(* Bounds of the model *)

\* a constructor is handed up to MaxClients clients (and thresholds one beyond)
MaxClients == 3

\* a constructor is handed metric dimensions up to MaxDimension
MaxDimension == 2

\* a constructor is handed scales up to MaxScale
MaxScale == 2

\* signed integers handed to FromSigned lie in -MaxSigned..MaxSigned
MaxSigned == 35

\* texts handed to the text watermark have up to MaxTextLen bytes
MaxTextLen == 3

\* byte strings handed to StripZeroWidth have up to MaxStripLen bytes
MaxStripLen == 4

\* images have up to MaxFingerprint samples after the metadata block
MaxFingerprint == 2

\* random_device seeds of the coordinator's generator are 0..MaxSeed
MaxSeed == 1
\* metric numerators are -1 and 1..MaxMetric (over MetricDenom)
MaxMetric == 2
\* active lists passed to Finalize have at most MaxActiveLen entries
MaxActiveLen == 3
\* Shamir objects have at most MaxParties participants
MaxParties == 4
\* secrets shared by the Shamir runs have at most MaxSecretLen components
MaxSecretLen == 2
\* the generator handed to ShareVector starts in one of the states 0..MaxShamirSeed
MaxShamirSeed == 5

-----------------------------------------------------------------------------
(* field.h *)

kModulus == 61

Add(a, b) == (a + b) % kModulus

Sub(a, b) == ((kModulus + a) - (b % kModulus)) % kModulus

Mul(a, b) == (a * b) % kModulus

RECURSIVE PowLoop(_, _, _)
PowLoop(result, cur, exp) ==
  IF exp > 0
    THEN PowLoop(IF exp % 2 = 1 THEN Mul(result, cur) ELSE result,
                 Mul(cur, cur), exp \div 2)
    ELSE result

Pow(base, exp) == PowLoop(1, base % kModulus, exp)

\* Inverse with the exponent p - 1
Inverse_FullOrder(value) == IF value = 0 THEN 0 ELSE Pow(value, kModulus - 1)

Inverse(value) == IF value = 0 THEN 0 ELSE Pow(value, kModulus - 2)

\* ToSigned with the comparison >= p / 2
ToSigned_AtHalf(value) ==
  IF value >= kModulus \div 2 THEN value - kModulus ELSE value

ToSigned(value) ==
  IF value > kModulus \div 2 THEN value - kModulus ELSE value

\* the % of C++ truncates towards zero
CRem(v, m) == IF v >= 0 THEN v % m ELSE -((-v) % m)

FromSigned(value) == (CRem(value, kModulus) + kModulus) % kModulus

-----------------------------------------------------------------------------
(* vectors over the field: a std::vector is a sequence, index i at i + 1 *)

\* the sequence v with its elements evaluated: TLC keeps a [i \in S |-> e]
\* unevaluated and evaluates e again at every application
Eager(v) == v \o <<>>

ZeroVec(n) == Eager([i \in 1..n |-> 0])

VecAdd(a, b) == Eager([i \in 1..Len(a) |-> Add(a[i], b[i])])

VecSub(a, b) == Eager([i \in 1..Len(a) |-> Sub(a[i], b[i])])

-----------------------------------------------------------------------------
(* std::uint64_t arithmetic of MixSeed: four 16-bit limbs, low limb first *)

Limb == 65536

Word(n) == <<n % Limb, (n \div Limb) % Limb, 0, 0>>

\* 0x9e3779b97f4a7c15
Golden == <<31765, 32586, 31161, 40503>>

\* x + y modulo 2^64
Add64(x, y) ==
  LET c1 == (x[1] + y[1]) \div Limb
      c2 == (x[2] + y[2] + c1) \div Limb
      c3 == (x[3] + y[3] + c2) \div Limb
  IN  <<(x[1] + y[1]) % Limb, (x[2] + y[2] + c1) % Limb,
        (x[3] + y[3] + c2) % Limb, (x[4] + y[4] + c3) % Limb>>

\* x << 6
Shl6(x) ==
  <<(x[1] * 64) % Limb,
    ((x[2] * 64) % Limb) + (x[1] \div 1024),
    ((x[3] * 64) % Limb) + (x[2] \div 1024),
    ((x[4] * 64) % Limb) + (x[3] \div 1024)>>

\* x >> 2
Shr2(x) ==
  <<(x[1] \div 4) + (x[2] % 4) * 16384,
    (x[2] \div 4) + (x[3] % 4) * 16384,
    (x[3] \div 4) + (x[4] % 4) * 16384,
    x[4] \div 4>>

RECURSIVE Xor16(_, _)
Xor16(a, b) ==
  IF a = 0 THEN b
  ELSE IF b = 0 THEN a
  ELSE ((a + b) % 2) + 2 * Xor16(a \div 2, b \div 2)

Xor64(x, y) ==
  <<Xor16(x[1], y[1]), Xor16(x[2], y[2]), Xor16(x[3], y[3]), Xor16(x[4], y[4])>>

MixStep(seed, v) ==
  Xor64(seed, Add64(Add64(Add64(v, Golden), Shl6(seed)), Shr2(seed)))

\* MixSeed without the swap of a and b
MixSeed_NoSwap(a, b, c) == MixStep(MixStep(Word(a), Word(b)), Word(c))

MixSeed(a, b, c) ==
  LET lo == IF a > b THEN b ELSE a
      hi == IF a > b THEN a ELSE b
  IN  MixStep(MixStep(Word(lo), Word(hi)), Word(c))

-----------------------------------------------------------------------------
(* std::mt19937_64 and std::uniform_int_distribution(0, kModulus - 1) *)

PrngStates == 64

\* std::mt19937_64 prng(seed), seed a 64-bit word
PrngSeed(seed) == (seed[1] + seed[2] + seed[3] + seed[4]) % PrngStates

\* the generator's state after one more draw
PrngNext(s) == (s * 5 + 3) % PrngStates

RECURSIVE PrngAfter(_, _)
PrngAfter(s, n) == IF n = 0 THEN s ELSE PrngAfter(PrngNext(s), n - 1)

\* dist(prng): the value of the k-th draw made from state s (k >= 1)
PrngDist(s, k) == PrngAfter(s, k) % kModulus

-----------------------------------------------------------------------------
(* shamir.cpp *)

\* BuildPolynomial: coeffs[0] = constant, coeffs[1..degree] drawn from prng
BuildPolynomial(constant, degree, s) ==
  [coeffs |-> <<constant>> \o [i \in 1..degree |-> PrngDist(s, i)],
   prng   |-> PrngAfter(s, degree)]

RECURSIVE EvaluateLoop(_, _, _, _, _)
EvaluateLoop(coeffs, x, i, result, power) ==
  IF i > Len(coeffs) THEN result
  ELSE EvaluateLoop(coeffs, x, i + 1,
                    Add(result, Mul(coeffs[i], power)),
                    Mul(power, x % kModulus))

Evaluate(coeffs, x) == EvaluateLoop(coeffs, x, 1, 0, 1)

\* x-coordinate of the participant with (0-based) index participant
ShareCoord(participant) == participant + 1

\* Shamir::ShareVector of a Shamir(threshold, num_participants): row
\* participant + 1 of shares is the share vector of participant
ShareVector(threshold, num_participants, secret, s) ==
  IF threshold = 0 \/ threshold > num_participants
    THEN [error |-> "invalid_threshold", shares |-> <<>>, prng |-> s]
    ELSE
      LET coeffs == Eager([component \in 1..Len(secret) |->
                      BuildPolynomial(secret[component], threshold - 1,
                        PrngAfter(s, (component - 1) * (threshold - 1))).coeffs])
      IN  [error  |-> "none",
           shares |-> Eager([row \in 1..num_participants |->
                        Eager([component \in 1..Len(secret) |->
                          Evaluate(coeffs[component], ShareCoord(row - 1))])]),
           prng   |-> PrngAfter(s, Len(secret) * (threshold - 1))]

RECURSIVE LagrangeNumerator(_, _, _, _)
LagrangeNumerator(x_coords, i, j, numerator) ==
  IF j > Len(x_coords) THEN numerator
  ELSE LagrangeNumerator(x_coords, i, j + 1,
         IF i = j THEN numerator
         ELSE Mul(numerator, Sub(0, x_coords[j] % kModulus)))

RECURSIVE LagrangeDenominator(_, _, _, _)
LagrangeDenominator(x_coords, i, j, denominator) ==
  IF j > Len(x_coords) THEN denominator
  ELSE LagrangeDenominator(x_coords, i, j + 1,
         IF i = j THEN denominator
         ELSE Mul(denominator,
                  Sub(x_coords[i] % kModulus, x_coords[j] % kModulus)))

\* Lagrange without the inversion of the denominator
Lagrange_NoInverse(x_coords, i) ==
  Mul(LagrangeNumerator(x_coords, i, 1, 1), LagrangeDenominator(x_coords, i, 1, 1))

Lagrange(x_coords, i) ==
  Mul(LagrangeNumerator(x_coords, i, 1, 1),
      Inverse(LagrangeDenominator(x_coords, i, 1, 1)))

RECURSIVE InterpolateLoop(_, _, _, _, _)
InterpolateLoop(x_coords, shares, comp, i, value) ==
  IF i > Len(shares) THEN value
  ELSE InterpolateLoop(x_coords, shares, comp, i + 1,
         Add(value, Mul(shares[i][comp], Lagrange(x_coords, i))))

\* Shamir::Reconstruct of a Shamir with the given threshold
Reconstruct(threshold, x_coords, shares) ==
  IF Len(shares) # Len(x_coords)
    THEN [error |-> "size_mismatch", secret |-> <<>>]
  ELSE IF Len(shares) < threshold
    THEN [error |-> "insufficient_shares", secret |-> <<>>]
  ELSE [error  |-> "none",
        secret |-> Eager([comp \in 1..Len(shares[1]) |->
                     InterpolateLoop(x_coords, shares, comp, 1, 0)])]

-----------------------------------------------------------------------------
(* protocol.cpp: the coordinator *)

\* a double metric is MetricDenom-ths: the value of numerator n is n / MetricDenom
MetricDenom == 2

vector_dimension_ == metric_dimension_ * 2

ClientIds == 0..(num_clients_ - 1)

\* ClientState as default-constructed (protocol.h)
NewClientState ==
  [registered       |-> FALSE,
   masked_payload   |-> <<>>,
   personal_mask    |-> <<>>,
   incoming_shares  |-> <<>>,
   pairwise_seeds   |-> <<>>,
   original_metrics |-> <<>>]

\* std::round(n / d): halfway cases away from zero
RoundHalfAway(n, d) ==
  IF n >= 0 THEN (2 * n + d) \div (2 * d) ELSE -((2 * (-n) + d) \div (2 * d))

\* scaled_int of BuildPayload: round(value * scale_)
ScaledInt(value) == RoundHalfAway(value * scale_, MetricDenom)

\* the vector "scaled" of BuildPayload: values, then their squares
ScaledVector(metrics) ==
  Eager([i \in 1..vector_dimension_ |->
     IF i <= metric_dimension_
       THEN FromSigned(ScaledInt(metrics[i]))
       ELSE (ScaledInt(metrics[i - metric_dimension_])
             * ScaledInt(metrics[i - metric_dimension_])) % kModulus])

\* GeneratePersonalMask, drawing from the coordinator's generator in state s
GeneratePersonalMask(s) ==
  [mask |-> Eager([i \in 1..vector_dimension_ |-> PrngDist(s, i)]),
   prng |-> PrngAfter(s, vector_dimension_)]

\* GeneratePairwiseMask: a fresh generator seeded with seed
GeneratePairwiseMask(seed) ==
  Eager([i \in 1..vector_dimension_ |-> PrngDist(PrngSeed(seed), i)])

\* the seed client_id derives for other
PairSeed(client_id, other) == MixSeed(client_id + 1, other + 1, scale_)

\* ApplyPairwise with the mask added on both sides of the pair
ApplyPairwise_AlwaysAdd(payload, mask, client_id, other) ==
  VecAdd(payload, mask)

\* the sign with which client_id applies its pairwise mask with other
ApplyPairwise(payload, mask, client_id, other) ==
  IF client_id < other THEN VecAdd(payload, mask) ELSE VecSub(payload, mask)

\* the loop over other of BuildPayload (lines 107-124); run is
\* [payload, pairwise_seeds]
RECURSIVE PairwiseLoop(_, _, _)
PairwiseLoop(client_id, other, run) ==
  IF other >= num_clients_ THEN run
  ELSE IF other = client_id THEN PairwiseLoop(client_id, other + 1, run)
  ELSE
    LET seed == PairSeed(client_id, other)
    IN  PairwiseLoop(client_id, other + 1,
          [payload        |-> ApplyPairwise(run.payload, GeneratePairwiseMask(seed),
                                            client_id, other),
           pairwise_seeds |-> (other :> seed) @@ run.pairwise_seeds])

\* BuildPayload, for a client whose pairwise_seeds map is seeds
BuildPayload(metrics, seeds, client_id) ==
  IF Len(metrics) # metric_dimension_
    THEN [error |-> "dimension_mismatch", payload |-> <<>>,
          personal_mask |-> <<>>, mask_shares |-> <<>>,
          pairwise_seeds |-> seeds, prng |-> prng_]
    ELSE
      LET pm     == GeneratePersonalMask(prng_)
          shared == ShareVector(threshold_, num_clients_, pm.mask, pm.prng)
          masked == PairwiseLoop(client_id, 0,
                      [payload        |-> VecAdd(ScaledVector(metrics), pm.mask),
                       pairwise_seeds |-> seeds])
      IN  [error          |-> "none",
           payload        |-> masked.payload,
           personal_mask  |-> pm.mask,
           mask_shares    |-> shared.shares,
           pairwise_seeds |-> masked.pairwise_seeds,
           prng           |-> shared.prng]

NoResult ==
  [sum |-> <<>>, mean |-> <<>>, variance |-> <<>>,
   participants |-> 0, survivors |-> 0, threshold |-> 0]

\* what a call leaves in last
CallRecord(op, client_id, metrics, active, error) ==
  [op |-> op, client_id |-> client_id, metrics |-> metrics, active |-> active,
   error |-> error, payload |-> <<>>, aggregate |-> <<>>,
   reconstructed |-> <<>>, cancelled |-> <<>>, result |-> NoResult]

\* RegisterCheck without the test of the registered flag
RegisterCheck_NoRepeatTest(client_id) ==
  IF client_id >= num_clients_ THEN "out_of_range" ELSE "none"

\* the checks of RegisterClient before it touches the state (lines 131-137)
RegisterCheck(client_id) ==
  IF client_id >= num_clients_ THEN "out_of_range"
  ELSE IF clients_[client_id].registered THEN "already_registered"
  ELSE "none"

\* ShareLoop that hands shares to the clients registered so far only
RECURSIVE ShareLoop_ToRegistered(_, _, _, _)
ShareLoop_ToRegistered(client_id, recipient, mask_shares, cl) ==
  IF recipient >= num_clients_ THEN cl
  ELSE IF recipient = client_id \/ ~cl[recipient].registered
    THEN ShareLoop_ToRegistered(client_id, recipient + 1, mask_shares, cl)
  ELSE ShareLoop_ToRegistered(client_id, recipient + 1, mask_shares,
         [cl EXCEPT ![recipient].incoming_shares =
            (client_id :> mask_shares[recipient + 1]) @@ @])

\* ShareLoop that leaves each recipient with the new share only
RECURSIVE ShareLoop_OnlyNewShare(_, _, _, _)
ShareLoop_OnlyNewShare(client_id, recipient, mask_shares, cl) ==
  IF recipient >= num_clients_ THEN cl
  ELSE IF recipient = client_id
    THEN ShareLoop_OnlyNewShare(client_id, recipient + 1, mask_shares, cl)
  ELSE ShareLoop_OnlyNewShare(client_id, recipient + 1, mask_shares,
         [cl EXCEPT ![recipient].incoming_shares =
            (client_id :> mask_shares[recipient + 1])])

\* the loop over recipient of BuildPayload (lines 95-100)
RECURSIVE ShareLoop(_, _, _, _)
ShareLoop(client_id, recipient, mask_shares, cl) ==
  IF recipient >= num_clients_ THEN cl
  ELSE IF recipient = client_id
    THEN ShareLoop(client_id, recipient + 1, mask_shares, cl)
  ELSE ShareLoop(client_id, recipient + 1, mask_shares,
         [cl EXCEPT ![recipient].incoming_shares =
            (client_id :> mask_shares[recipient + 1]) @@ @])

\* clients_ after the assignment of line 138 and a BuildPayload that throws
ClientsAfterThrow(client_id, metrics) ==
  [clients_ EXCEPT ![client_id].original_metrics = metrics]

\* clients_ after a RegisterClient that returns (lines 138-141)
ClientsAfterRegister(client_id, metrics, built) ==
  [ShareLoop(client_id, 0, built.mask_shares, clients_) EXCEPT
     ![client_id].original_metrics = metrics,
     ![client_id].personal_mask = built.personal_mask,
     ![client_id].pairwise_seeds = built.pairwise_seeds,
     ![client_id].masked_payload = built.payload,
     ![client_id].registered = TRUE]

\* FtmaCoordinator::RegisterClient
RegisterClient(client_id, metrics) ==
  /\ last.op = "idle"
  /\ UNCHANGED <<num_clients_, threshold_, metric_dimension_, scale_, shamir,
                 gwde, caller>>
  /\ LET check == RegisterCheck(client_id)
         call(error) == CallRecord("register", client_id, metrics, <<>>, error)
         built == BuildPayload(metrics, clients_[client_id].pairwise_seeds,
                               client_id)
     IN  IF check # "none"
           THEN /\ last' = call(check)
                /\ UNCHANGED <<clients_, prng_>>
         ELSE IF built.error # "none"
           THEN /\ last' = call(built.error)
                /\ clients_' = ClientsAfterThrow(client_id, metrics)
                /\ UNCHANGED prng_
         ELSE /\ last' = [call("none") EXCEPT !.payload = built.payload]
              /\ clients_' = ClientsAfterRegister(client_id, metrics, built)
              /\ prng_' = built.prng

\* FinalizeCheck with the two checks in the other order
FinalizeCheck_IdsFirst(active_clients) ==
  IF \E k \in 1..Len(active_clients) :
       \/ active_clients[k] >= num_clients_
       \/ ~clients_[active_clients[k]].registered
    THEN "not_registered"
  ELSE IF Len(active_clients) < threshold_ THEN "below_threshold"
  ELSE "none"

\* the checks of Finalize on its argument (lines 147-154)
FinalizeCheck(active_clients) ==
  IF Len(active_clients) < threshold_ THEN "below_threshold"
  ELSE IF \E k \in 1..Len(active_clients) :
            \/ active_clients[k] >= num_clients_
            \/ ~clients_[active_clients[k]].registered
    THEN "not_registered"
  ELSE "none"

\* the sum of the registered payloads (lines 155-166)
RECURSIVE PayloadSum(_, _)
PayloadSum(id, aggregate) ==
  IF id >= num_clients_ THEN aggregate
  ELSE PayloadSum(id + 1,
         IF clients_[id].registered
           THEN VecAdd(aggregate, clients_[id].masked_payload)
           ELSE aggregate)

Participants == Cardinality({id \in ClientIds : clients_[id].registered})

\* the personal masks of the listed clients subtracted (lines 168-173)
RECURSIVE SubtractActiveMasks(_, _, _)
SubtractActiveMasks(active_clients, k, aggregate) ==
  IF k > Len(active_clients) THEN aggregate
  ELSE SubtractActiveMasks(active_clients, k + 1,
         VecSub(aggregate, clients_[active_clients[k]].personal_mask))

\* is_active (lines 175-178)
IsActive(active_clients, id) ==
  \E k \in 1..Len(active_clients) : active_clients[k] = id

\* the entries of the active list that hold a share of dropout (lines 188-194)
ShareHolders(active_clients, dropout) ==
  SelectSeq(active_clients,
            LAMBDA id : dropout \in DOMAIN clients_[id].incoming_shares)

\* the holder's id taken as its x-coordinate
HolderCoord_Id(id) == id

\* x-coordinate Finalize gives the share held by client id (line 192)
HolderCoord(id) == id + 1

\* the mask Finalize reconstructs for dropout from the first threshold_
\* holders (lines 198-201)
ReconstructDropout(active_clients, dropout) ==
  LET holders == SubSeq(ShareHolders(active_clients, dropout), 1, threshold_)
  IN  Reconstruct(threshold_,
                  Eager([k \in 1..Len(holders) |-> HolderCoord(holders[k])]),
                  Eager([k \in 1..Len(holders) |->
                     clients_[holders[k]].incoming_shares[dropout]])).secret

\* the loop over dropout (lines 180-205); run is [error, aggregate, reconstructed]
RECURSIVE DropoutLoop(_, _, _)
DropoutLoop(active_clients, dropout, run) ==
  IF dropout >= num_clients_ THEN run
  ELSE IF IsActive(active_clients, dropout) \/ ~clients_[dropout].registered
    THEN DropoutLoop(active_clients, dropout + 1, run)
  ELSE IF Len(ShareHolders(active_clients, dropout)) < threshold_
    THEN [run EXCEPT !.error = "insufficient_shares"]
  ELSE
    LET mask == ReconstructDropout(active_clients, dropout)
    IN  DropoutLoop(active_clients, dropout + 1,
          [run EXCEPT !.aggregate = VecSub(run.aggregate, mask),
                      !.reconstructed = (dropout :> mask) @@ @])

\* CancelPairwise with the signs of registration
CancelPairwise_SameSign(aggregate, mask_vec, id, missing) ==
  IF id < missing THEN VecAdd(aggregate, mask_vec) ELSE VecSub(aggregate, mask_vec)

\* the sign with which Finalize undoes survivor id's mask with missing
CancelPairwise(aggregate, mask_vec, id, missing) ==
  IF id < missing THEN VecSub(aggregate, mask_vec) ELSE VecAdd(aggregate, mask_vec)

\* the loop over the active list for one missing client (lines 211-225)
RECURSIVE SurvivorLoop(_, _, _, _)
SurvivorLoop(active_clients, missing, k, run) ==
  IF k > Len(active_clients) THEN run
  ELSE
    LET id == active_clients[k]
    IN  IF missing \notin DOMAIN clients_[id].pairwise_seeds
          THEN SurvivorLoop(active_clients, missing, k + 1, run)
          ELSE SurvivorLoop(active_clients, missing, k + 1,
                 [run EXCEPT
                    !.aggregate =
                       CancelPairwise(run.aggregate,
                         GeneratePairwiseMask(clients_[id].pairwise_seeds[missing]),
                         id, missing),
                    !.cancelled = Append(run.cancelled, <<id, missing>>)])

\* the clients the loop of lines 207-226 undoes pairwise masks for
IsMissing(active_clients, missing) ==
  ~(clients_[missing].registered \/ IsActive(active_clients, missing))

\* the loop over missing (lines 207-226); run is [aggregate, cancelled]
RECURSIVE MissingLoop(_, _, _)
MissingLoop(active_clients, missing, run) ==
  IF missing >= num_clients_ THEN run
  ELSE IF ~IsMissing(active_clients, missing)
    THEN MissingLoop(active_clients, missing + 1, run)
  ELSE MissingLoop(active_clients, missing + 1,
         SurvivorLoop(active_clients, missing, 1, run))

Max(a, b) == IF a >= b THEN a ELSE b

\* AggregationResult of lines 232-254.  sum[i] is the numerator of the sum over
\* scale_; mean[i] and variance[i] are <<numerator, denominator>>
DecodeResult(aggregate, participants, survivors) ==
  LET sum_num(i)   == ToSigned(aggregate[i])
      sumsq_num(i) == ToSigned(aggregate[i + metric_dimension_])
  IN  [sum          |-> Eager([i \in 1..metric_dimension_ |-> sum_num(i)]),
       mean         |-> Eager([i \in 1..metric_dimension_ |->
                          <<sum_num(i), scale_ * participants>>]),
       variance     |-> Eager([i \in 1..metric_dimension_ |->
                          <<Max(0, sumsq_num(i) * participants
                                   - sum_num(i) * sum_num(i)),
                            scale_ * scale_ * participants * participants>>]),
       participants |-> participants,
       survivors    |-> survivors,
       threshold    |-> threshold_]

\* the run of Finalize after its checks (lines 155-257)
Aggregate(active_clients) ==
  LET summed  == PayloadSum(0, ZeroVec(vector_dimension_))
      own     == SubtractActiveMasks(active_clients, 1, summed)
      dropped == DropoutLoop(active_clients, 0,
                   [error |-> "none", aggregate |-> own, reconstructed |-> <<>>])
      undone  == MissingLoop(active_clients, 0,
                   [aggregate |-> dropped.aggregate, cancelled |-> <<>>])
  IN  IF dropped.error # "none"
        THEN [error |-> dropped.error, aggregate |-> <<>>,
              reconstructed |-> <<>>, cancelled |-> <<>>, result |-> NoResult]
      ELSE IF Participants = 0
        THEN [error |-> "no_participants", aggregate |-> <<>>,
              reconstructed |-> <<>>, cancelled |-> <<>>, result |-> NoResult]
      ELSE [error         |-> "none",
            aggregate     |-> undone.aggregate,
            reconstructed |-> dropped.reconstructed,
            cancelled     |-> undone.cancelled,
            result        |-> DecodeResult(undone.aggregate, Participants,
                                           Len(active_clients))]

\* Finalize that draws once from the coordinator's generator
Finalize_DrawsFromPrng(active_clients) ==
  /\ last.op = "idle"
  /\ UNCHANGED <<num_clients_, threshold_, metric_dimension_, scale_, shamir,
                 gwde, caller>>
  /\ clients_' = clients_
  /\ prng_' = PrngNext(prng_)
  /\ LET check == FinalizeCheck(active_clients)
     IN  IF check # "none"
           THEN last' = CallRecord("finalize", 0, <<>>, active_clients, check)
           ELSE LET run == Aggregate(active_clients)
                IN  last' = [CallRecord("finalize", 0, <<>>, active_clients,
                                        run.error) EXCEPT
                               !.aggregate = run.aggregate,
                               !.reconstructed = run.reconstructed,
                               !.cancelled = run.cancelled,
                               !.result = run.result]

\* FtmaCoordinator::Finalize
Finalize(active_clients) ==
  /\ last.op = "idle"
  /\ UNCHANGED <<num_clients_, threshold_, metric_dimension_, scale_, shamir,
                 gwde, caller>>
  /\ UNCHANGED <<clients_, prng_>>
  /\ LET check == FinalizeCheck(active_clients)
         call(error) == CallRecord("finalize", 0, <<>>, active_clients, error)
     IN  IF check # "none"
           THEN last' = call(check)
           ELSE LET run == Aggregate(active_clients)
                IN  last' = [call(run.error) EXCEPT
                               !.aggregate = run.aggregate,
                               !.reconstructed = run.reconstructed,
                               !.cancelled = run.cancelled,
                               !.result = run.result]

-----------------------------------------------------------------------------
(* the calls a run makes *)

\* metric numerators a caller passes
MetricValues == {-1, MaxMetric}

\* metric vectors of the right dimension
MetricVectors == [1..metric_dimension_ -> MetricValues]

\* what a caller passes as metrics: the vectors of the right dimension, and one
\* vector of every length up to metric_dimension_ + 1
MetricInputs ==
  MetricVectors
    \cup {[i \in 1..n |-> MaxMetric] : n \in 0..(metric_dimension_ + 1)}

\* active lists: any ids, num_clients_ (out of range) among them, repeats allowed
ActiveInputs ==
  UNION {[1..n -> 0..num_clients_] : n \in 0..MaxActiveLen}

\* the caller takes the outcome of the call; the coordinator is idle again
Return ==
  /\ last.op # "idle"
  /\ last' = CallRecord("idle", 0, <<>>, <<>>, "none")
  /\ UNCHANGED <<num_clients_, threshold_, metric_dimension_, scale_, clients_,
                 prng_, shamir, gwde, caller>>

\* the Shamir object of a coordinator run is not used on its own
NoShamir == [pc |-> "unused"]

\* no watermark is embedded or detected in an FTMA run
NoWatermark == [pc |-> "unused"]

\* the calling program keeps nothing beside the outcome of its last call
NoCaller == [pc |-> "unused"]

\* FtmaCoordinator(num_clients, threshold, metric_dimension, scale) with valid
\* parameters; std::random_device seeds prng_
InitCoordinator(shape) ==
  /\ num_clients_ = shape.num_clients
  /\ threshold_ = shape.threshold
  /\ metric_dimension_ = shape.metric_dimension
  /\ scale_ = shape.scale
  /\ clients_ = [id \in 0..(shape.num_clients - 1) |-> NewClientState]
  /\ prng_ \in 0..MaxSeed
  /\ last = CallRecord("idle", 0, <<>>, <<>>, "none")
  /\ shamir = NoShamir
  /\ gwde = NoWatermark

\* the coordinator of Spec: three clients, any two of them reconstruct
SpecShape ==
  [num_clients |-> 3, threshold |-> 2, metric_dimension |-> 1, scale |-> 3]

Init == InitCoordinator(SpecShape) /\ caller = NoCaller

Next ==
  \/ \E client_id \in 0..num_clients_, metrics \in MetricInputs :
       RegisterClient(client_id, metrics)
  \/ \E active_clients \in ActiveInputs : Finalize(active_clients)
  \/ Return

Spec == Init /\ [][Next]_vars

-----------------------------------------------------------------------------
(* runs with a client that never registers and a client that drops out *)

\* the coordinator of SpecDropout: four clients, any two of them reconstruct
DropoutShape ==
  [num_clients |-> 4, threshold |-> 2, metric_dimension |-> 1, scale |-> 3]

\* active lists of distinct client ids, of any length
RECURSIVE DistinctLists(_)
DistinctLists(ids) ==
  {<<>>} \cup UNION {{<<id>> \o rest : rest \in DistinctLists(ids \ {id})} :
                      id \in ids}

InitDropout == InitCoordinator(DropoutShape) /\ caller = NoCaller

NextDropout ==
  \/ \E client_id \in ClientIds, metrics \in MetricVectors :
       RegisterClient(client_id, metrics)
  \/ \E active_clients \in DistinctLists(ClientIds) : Finalize(active_clients)
  \/ Return

SpecDropout == InitDropout /\ [][NextDropout]_vars

-----------------------------------------------------------------------------
(* a Shamir object on its own: one ShareVector, then one Reconstruct *)

\* components of the secrets that are shared
SecretValues == {0, 2, kModulus - 1}

SecretVectors == UNION {[1..n -> SecretValues] : n \in 1..MaxSecretLen}

\* no coordinator is constructed in a Shamir run
NoCoordinator ==
  /\ num_clients_ = 0
  /\ threshold_ = 0
  /\ metric_dimension_ = 0
  /\ scale_ = 0
  /\ clients_ = <<>>
  /\ prng_ = 0
  /\ last = CallRecord("idle", 0, <<>>, <<>>, "none")

\* Shamir(threshold, num_participants) with 1 <= threshold <= num_participants,
\* a secret to share and a generator
InitShamir ==
  /\ NoCoordinator
  /\ gwde = NoWatermark
  /\ caller = NoCaller
  /\ \E n \in 1..MaxParties, t \in 1..MaxParties, secret \in SecretVectors,
        seed \in 0..MaxShamirSeed :
       /\ t <= n
       /\ shamir = [pc |-> "new", threshold |-> t, num_participants |-> n,
                    secret |-> secret, prng |-> seed, shares |-> <<>>,
                    parties |-> <<>>, error |-> "none", recovered |-> <<>>]

\* shares = shamir_.ShareVector(secret, prng)
ShamirShare ==
  /\ shamir.pc = "new"
  /\ LET shared == ShareVector(shamir.threshold, shamir.num_participants,
                               shamir.secret, shamir.prng)
     IN  shamir' = [shamir EXCEPT !.pc = "shared", !.shares = shared.shares,
                                  !.prng = shared.prng, !.error = shared.error]
  /\ UNCHANGED <<num_clients_, threshold_, metric_dimension_, scale_, clients_,
                 prng_, last, gwde, caller>>

\* Reconstruct on the rows of the listed parties, each with x = index + 1
ShamirReconstruct(parties) ==
  /\ shamir.pc = "shared"
  /\ LET rebuilt ==
           Reconstruct(shamir.threshold,
                       Eager([k \in 1..Len(parties) |-> parties[k] + 1]),
                       Eager([k \in 1..Len(parties) |->
                                shamir.shares[parties[k] + 1]]))
     IN  shamir' = [shamir EXCEPT !.pc = "done", !.parties = parties,
                                  !.error = rebuilt.error,
                                  !.recovered = rebuilt.secret]
  /\ UNCHANGED <<num_clients_, threshold_, metric_dimension_, scale_, clients_,
                 prng_, last, gwde, caller>>

NextShamir ==
  \/ ShamirShare
  \/ \E parties \in DistinctLists(0..(shamir.num_participants - 1)) \ {<<>>} :
       ShamirReconstruct(parties)

SpecShamir == InitShamir /\ [][NextShamir]_vars

-----------------------------------------------------------------------------
(* GW-DE: the std::uint64_t arithmetic of the two hashes *)

\* the eight bytes of a 64-bit word, low byte first
Bytes8(x) ==
  <<x[1] % 256, x[1] \div 256, x[2] % 256, x[2] \div 256,
    x[3] % 256, x[3] \div 256, x[4] % 256, x[4] \div 256>>

\* the eight low columns of the product of the bytes a and b, carries aside
MulColumns(a, b) ==
  <<a[1] * b[1],
    a[1] * b[2] + a[2] * b[1],
    a[1] * b[3] + a[2] * b[2] + a[3] * b[1],
    a[1] * b[4] + a[2] * b[3] + a[3] * b[2] + a[4] * b[1],
    a[1] * b[5] + a[2] * b[4] + a[3] * b[3] + a[4] * b[2] + a[5] * b[1],
    a[1] * b[6] + a[2] * b[5] + a[3] * b[4] + a[4] * b[3] + a[5] * b[2]
      + a[6] * b[1],
    a[1] * b[7] + a[2] * b[6] + a[3] * b[5] + a[4] * b[4] + a[5] * b[3]
      + a[6] * b[2] + a[7] * b[1],
    a[1] * b[8] + a[2] * b[7] + a[3] * b[6] + a[4] * b[5] + a[5] * b[4]
      + a[6] * b[3] + a[7] * b[2] + a[8] * b[1]>>

\* the bytes of the columns s[k..], each with the carry of the column before
RECURSIVE MulCarry(_, _, _)
MulCarry(s, k, carry) ==
  IF k > Len(s) THEN <<>>
  ELSE <<(s[k] + carry) % 256>> \o MulCarry(s, k + 1, (s[k] + carry) \div 256)

\* the 64-bit word of eight bytes, low byte first
WordOfBytes(c) ==
  <<c[1] + 256 * c[2], c[3] + 256 * c[4], c[5] + 256 * c[6],
    c[7] + 256 * c[8]>>

\* x * y modulo 2^64
Mul64(x, y) == WordOfBytes(MulCarry(MulColumns(Bytes8(x), Bytes8(y)), 1, 0))

\* x >> 33
Shr33(x) == <<(x[3] \div 2) + (x[4] % 2) * 32768, x[4] \div 2, 0, 0>>

\* 1469598103934665603 = 0x14650fb0739d0383
kFnvOffset == <<899, 29597, 4016, 5221>>

\* 1099511628211 = 0x100000001b3
kFnvPrime == <<435, 0, 256, 0>>

\* the loop of HashString64 over the bytes value[i..]
RECURSIVE HashLoop(_, _, _)
HashLoop(value, i, hash) ==
  IF i > Len(value) THEN hash
  ELSE HashLoop(value, i + 1,
                Mul64(Xor64(hash, <<value[i], 0, 0, 0>>), kFnvPrime))

\* HashString64: FNV-1a over the bytes of value
HashString64(value) == HashLoop(value, 1, kFnvOffset)

StableHash(value) == HashString64(value)

\* 0xff51afd7ed558ccd
kMurmurC1 == <<36045, 60757, 45015, 65361>>

\* 0xc4ceb9fe1a85ec53
kMurmurC2 == <<60499, 6789, 47614, 50382>>

\* value ^ (value >> 33)
XorShift33(value) == Xor64(value, Shr33(value))

StableHash64(value) ==
  XorShift33(Mul64(XorShift33(Mul64(XorShift33(value), kMurmurC1)),
                   kMurmurC2))

\* std::mt19937_64 rng(seed); the low bit of its k-th draw (k >= 1)
RngBit(seed, k) == PrngAfter(PrngSeed(seed), k) % 2

\* a ^ b on bits
XorBit(a, b) == (a + b) % 2

-----------------------------------------------------------------------------
(* GW-DE: zero-width code points and UTF-8 (watermark.cpp 11-149) *)

kZeroWidthZero == 8203

kZeroWidthOne == 8204

kZeroWidthMetaStart == 8291

kZeroWidthMetaEnd == 8292

kMetadataBytes == 24

kMetadataRepeat == 4

kMetadataBits == kMetadataBytes * 8

kMetadataPayloadBits == kMetadataBits * kMetadataRepeat

\* the UTF-8 bytes EncodeZeroWidthBits writes for one code point
EncodeCodePoint(code_point) ==
  IF code_point <= 127 THEN <<code_point>>
  ELSE IF code_point <= 2047
    THEN <<192 + ((code_point \div 64) % 32), 128 + (code_point % 64)>>
  ELSE <<224 + ((code_point \div 4096) % 16),
         128 + ((code_point \div 64) % 64), 128 + (code_point % 64)>>

\* one turn of the loop over bits; run is [k, utf8]
EncodeBitsStep(bits, run) ==
  [k |-> run.k + 1,
   utf8 |-> run.utf8 \o EncodeCodePoint(IF bits[run.k] # 0 THEN kZeroWidthOne
                                        ELSE kZeroWidthZero)]

\* up to n turns of the loop
RECURSIVE EncodeBitsTurns(_, _, _)
EncodeBitsTurns(bits, run, n) ==
  IF n = 0 \/ run.k > Len(bits) THEN run
  ELSE EncodeBitsTurns(bits, EncodeBitsStep(bits, run), n - 1)

\* the loop, sixteen turns at a time
RECURSIVE EncodeBitsLoop(_, _)
EncodeBitsLoop(bits, run) ==
  IF run.k > Len(bits) THEN run.utf8
  ELSE EncodeBitsLoop(bits, EncodeBitsTurns(bits, run, 16))

EncodeZeroWidthBits(bits, include_sentinels) ==
  (IF include_sentinels THEN EncodeCodePoint(kZeroWidthMetaStart) ELSE <<>>)
    \o EncodeBitsLoop(bits, [k |-> 1, utf8 |-> <<>>])
    \o (IF include_sentinels THEN EncodeCodePoint(kZeroWidthMetaEnd) ELSE <<>>)

\* the decoder the three scanners share: the code point at offset i (from 0)
\* and the bytes it takes; consumed = 0 when none of the three forms applies
DecodeUnit(payload, i) ==
  LET first == payload[i + 1]
  IN  IF first < 128 THEN [cp |-> first, consumed |-> 1]
      ELSE IF first \div 32 = 6 /\ i + 1 < Len(payload)
        THEN [cp |-> (first % 32) * 64 + (payload[i + 2] % 64), consumed |-> 2]
      ELSE IF first \div 16 = 14 /\ i + 2 < Len(payload)
        THEN [cp |-> (first % 16) * 4096 + (payload[i + 2] % 64) * 64
                       + (payload[i + 3] % 64),
              consumed |-> 3]
      ELSE [cp |-> 0, consumed |-> 0]

\* the scanners that pass a malformed byte through as a code point of its own
DecodeOrByte(payload, i) ==
  LET unit == DecodeUnit(payload, i)
  IN  IF unit.consumed = 0 THEN [cp |-> payload[i + 1], consumed |-> 1]
      ELSE unit

\* one turn of the while loop of DecodeZeroWidthBits; run is [i, bits, done],
\* done once the loop is left
DecodeBitsStep(payload, run, with_sentinels) ==
  LET unit == DecodeUnit(payload, run.i)
  IN  IF unit.consumed = 0 THEN [run EXCEPT !.done = TRUE]
      ELSE IF with_sentinels /\ unit.cp = kZeroWidthMetaEnd
        THEN [run EXCEPT !.i = @ + unit.consumed, !.done = TRUE]
      ELSE IF unit.cp = kZeroWidthZero
        THEN [run EXCEPT !.i = @ + unit.consumed, !.bits = Append(@, 0)]
      ELSE IF unit.cp = kZeroWidthOne
        THEN [run EXCEPT !.i = @ + unit.consumed, !.bits = Append(@, 1)]
      ELSE IF ~with_sentinels THEN [run EXCEPT !.done = TRUE]
      ELSE [run EXCEPT !.i = @ + unit.consumed]

\* up to n turns of the loop
RECURSIVE DecodeBitsTurns(_, _, _, _)
DecodeBitsTurns(payload, run, with_sentinels, n) ==
  IF n = 0 \/ run.done \/ run.i >= Len(payload) THEN run
  ELSE DecodeBitsTurns(payload, DecodeBitsStep(payload, run, with_sentinels),
                       with_sentinels, n - 1)

\* the loop, sixteen turns at a time
RECURSIVE DecodeBitsLoop(_, _, _)
DecodeBitsLoop(payload, run, with_sentinels) ==
  IF run.done \/ run.i >= Len(payload)
    THEN [bits |-> run.bits, offset |-> run.i]
    ELSE DecodeBitsLoop(payload,
                        DecodeBitsTurns(payload, run, with_sentinels, 16),
                        with_sentinels)

\* DecodeZeroWidthBits: the bits and the value left in offset
DecodeZeroWidthBits(payload, offset, with_sentinels) ==
  LET from(i) == [i |-> i, bits |-> <<>>, done |-> FALSE]
  IN  IF ~with_sentinels THEN DecodeBitsLoop(payload, from(offset), FALSE)
      ELSE IF offset >= Len(payload) THEN [bits |-> <<>>, offset |-> offset]
      ELSE LET unit == DecodeUnit(payload, offset)
           IN  IF unit.cp # kZeroWidthMetaStart
                 THEN [bits |-> <<>>, offset |-> offset]
                 ELSE DecodeBitsLoop(payload, from(offset + unit.consumed),
                                     TRUE)

IsZeroWidth(cp) ==
  cp \in {kZeroWidthZero, kZeroWidthOne, kZeroWidthMetaStart, kZeroWidthMetaEnd}

\* StripStep that copies the first byte only of a code point it keeps
StripStep_FirstByteOnly(payload, run) ==
  LET unit == DecodeOrByte(payload, run.i)
  IN  [i |-> run.i + unit.consumed,
       cleaned |-> IF IsZeroWidth(unit.cp) THEN run.cleaned
                   ELSE Append(run.cleaned, payload[run.i + 1])]

\* one turn of the loop of StripZeroWidth; run is [i, cleaned]
StripStep(payload, run) ==
  LET unit == DecodeOrByte(payload, run.i)
  IN  [i |-> run.i + unit.consumed,
       cleaned |-> IF IsZeroWidth(unit.cp) THEN run.cleaned
                   ELSE run.cleaned
                          \o SubSeq(payload, run.i + 1, run.i + unit.consumed)]

\* up to n turns of the loop
RECURSIVE StripTurns(_, _, _)
StripTurns(payload, run, n) ==
  IF n = 0 \/ run.i >= Len(payload) THEN run
  ELSE StripTurns(payload, StripStep(payload, run), n - 1)

\* the loop, sixteen turns at a time
RECURSIVE StripLoop(_, _)
StripLoop(payload, run) ==
  IF run.i >= Len(payload) THEN run.cleaned
  ELSE StripLoop(payload, StripTurns(payload, run, 16))

StripZeroWidth(payload) == StripLoop(payload, [i |-> 0, cleaned |-> <<>>])

\* std::isspace in the "C" locale
IsSpace(c) == c \in {9, 10, 11, 12, 13, 32}

\* the loop of Tokenize; run is [tokens, current]
RECURSIVE TokenizeLoop(_, _, _)
TokenizeLoop(payload, k, run) ==
  IF k > Len(payload) THEN run
  ELSE TokenizeLoop(payload, k + 1,
         IF IsSpace(payload[k])
           THEN IF run.current # <<>>
                  THEN [tokens |-> Append(run.tokens, run.current),
                        current |-> <<>>]
                  ELSE run
           ELSE [run EXCEPT !.current = Append(@, payload[k])])

Tokenize(payload) ==
  LET run == TokenizeLoop(payload, 1, [tokens |-> <<>>, current |-> <<>>])
  IN  IF run.current # <<>> THEN Append(run.tokens, run.current) ELSE run.tokens

-----------------------------------------------------------------------------
(* GW-DE: the 24-byte metadata header (watermark.hpp 12-17, watermark.cpp
   170-212); a uint32_t is two 16-bit limbs, low limb first *)

\* static_cast<uint32_t>(n)
U32(n) == <<n % Limb, (n \div Limb) % Limb>>

\* v > n, for a uint32_t v and a size n
U32Greater(v, n) ==
  \/ v[2] > n \div Limb
  \/ v[2] = n \div Limb /\ v[1] > n % Limb

\* the size a uint32_t converts to
U32Value(v) == v[2] * Limb + v[1]

\* Metadata{}
DefaultMetadata ==
  [version |-> U32(1), state_seed |-> Word(0), key_hash |-> Word(0),
   fingerprint_length |-> U32(0)]

\* write_u32 with the least significant byte first
WriteU32_LittleEndian(value) ==
  <<value[1] % 256, value[1] \div 256, value[2] % 256, value[2] \div 256>>

\* write_u32: most significant byte first
WriteU32(value) ==
  <<value[2] \div 256, value[2] % 256, value[1] \div 256, value[1] % 256>>

\* write_u64: most significant byte first
WriteU64(value) ==
  <<value[4] \div 256, value[4] % 256, value[3] \div 256, value[3] % 256,
    value[2] \div 256, value[2] % 256, value[1] \div 256, value[1] % 256>>

PackMetadata(meta) ==
  WriteU32(meta.version) \o WriteU64(meta.state_seed)
    \o WriteU64(meta.key_hash) \o WriteU32(meta.fingerprint_length)

\* read_u32 of the four bytes after src[at]
ReadU32(src, at) ==
  <<src[at + 3] * 256 + src[at + 4], src[at + 1] * 256 + src[at + 2]>>

\* read_u64 of the eight bytes after src[at]
ReadU64(src, at) ==
  <<src[at + 7] * 256 + src[at + 8], src[at + 5] * 256 + src[at + 6],
    src[at + 3] * 256 + src[at + 4], src[at + 1] * 256 + src[at + 2]>>

\* std::optional<Metadata>
UnpackMetadata(bytes) ==
  IF Len(bytes) # 24 THEN [has_value |-> FALSE, value |-> DefaultMetadata]
  ELSE [has_value |-> TRUE,
        value |-> [version |-> ReadU32(bytes, 0),
                   state_seed |-> ReadU64(bytes, 4),
                   key_hash |-> ReadU64(bytes, 12),
                   fingerprint_length |-> ReadU32(bytes, 20)]]

\* the bits of a byte, bit 7 first
BitsOfByte(byte) ==
  <<(byte \div 128) % 2, (byte \div 64) % 2, (byte \div 32) % 2,
    (byte \div 16) % 2, (byte \div 8) % 2, (byte \div 4) % 2,
    (byte \div 2) % 2, byte % 2>>

RECURSIVE BytesToBits(_, _)
BytesToBits(bytes, k) ==
  IF k > Len(bytes) THEN <<>>
  ELSE BitsOfByte(bytes[k]) \o BytesToBits(bytes, k + 1)

\* bytes[i / 8] <<= 1; bytes[i / 8] |= bits[i] & 1 over the 192 bits:
\* byte k (from 1) of the result
ByteOfBits(bits, k) ==
  LET at == 8 * (k - 1)
  IN  128 * bits[at + 1] + 64 * bits[at + 2] + 32 * bits[at + 3]
        + 16 * bits[at + 4] + 8 * bits[at + 5] + 4 * bits[at + 6]
        + 2 * bits[at + 7] + bits[at + 8]

BitsToBytes(bits) == Eager([k \in 1..kMetadataBytes |-> ByteOfBits(bits, k)])

-----------------------------------------------------------------------------
(* GW-DE: DetectionResult and the scoring both detectors end with *)

\* a score is matching_bits over total_bits; 0.0 is 0 over 1
ZeroScore == [num |-> 0, den |-> 1]

\* false_positive_rate: a constant, or the erfc tail of (matching, total)
FpConst(value) ==
  [tail |-> FALSE, value |-> value, matching |-> 0, total |-> 0]

\* 1.0
FpOne == FpConst(1)

\* DetectionResult with false_positive_rate{0.0}
DefaultDetection_FpZero ==
  [score |-> ZeroScore, false_positive_rate |-> FpConst(0), total_bits |-> 0,
   matching_bits |-> 0, metadata_valid |-> FALSE, raised |-> "none"]

\* DetectionResult{}; raised is the exception the call ends with, if any
DefaultDetection ==
  [score |-> ZeroScore, false_positive_rate |-> FpOne, total_bits |-> 0,
   matching_bits |-> 0, metadata_valid |-> FALSE, raised |-> "none"]

RECURSIVE CountMatching(_, _, _)
CountMatching(expected, extracted, n) ==
  IF n = 0 THEN 0
  ELSE CountMatching(expected, extracted, n - 1)
         + (IF expected[n] = extracted[n] THEN 1 ELSE 0)

\* std::min
Min(a, b) == IF a < b THEN a ELSE b

\* the comparison of expected and extracted and the score, on valid metadata
ScoreBits(expected, extracted) ==
  LET total_bits == Min(Len(expected), Len(extracted))
      matching_bits == CountMatching(expected, extracted, total_bits)
      detection == [DefaultDetection EXCEPT !.metadata_valid = TRUE,
                                            !.total_bits = total_bits,
                                            !.matching_bits = matching_bits]
  IN  IF total_bits = 0 THEN detection
      ELSE [detection EXCEPT
              !.score = [num |-> matching_bits, den |-> total_bits],
              !.false_positive_rate =
                [tail |-> TRUE, value |-> 0, matching |-> matching_bits,
                 total |-> total_bits]]

-----------------------------------------------------------------------------
(* GW-DE: DualEntropyTextWatermark (watermark.cpp 235-420) *)

\* std::to_string(idx): the decimal digits of idx
RECURSIVE DecimalString(_)
DecimalString(idx) ==
  IF idx < 10 THEN <<48 + idx>>
  ELSE Append(DecimalString(idx \div 10), 48 + (idx % 10))

\* bits idx.. of the text fingerprint, idx from 0
RECURSIVE TextBitsLoop(_, _, _)
TextBitsLoop(tokens, idx, seed) ==
  IF idx >= Len(tokens) THEN <<>>
  ELSE LET content == StableHash(tokens[idx + 1] \o DecimalString(idx))
           content_bit == content[1] % 2
           state_bit == RngBit(seed, idx + 1)
       IN  <<XorBit(content_bit, state_bit)>>
             \o TextBitsLoop(tokens, idx + 1, seed)

TextComputeCombinedBits(tokens, state_seed, key_hash) ==
  TextBitsLoop(tokens, 0, Xor64(state_seed, key_hash))

EncodeMetadata(meta) ==
  EncodeZeroWidthBits(BytesToBits(PackMetadata(meta), 1), TRUE)

\* DecodeMetadata without the check of the header's length: a header of
\* another length reads as the default metadata
DecodeMetadata_AnyLength(payload) ==
  LET decoded == DecodeZeroWidthBits(payload, 0, TRUE)
  IN  IF Len(decoded.bits) # 24 * 8
        THEN [ok |-> TRUE, offset |-> decoded.offset, meta |-> DefaultMetadata]
        ELSE LET unpacked == UnpackMetadata(BitsToBytes(decoded.bits))
             IN  [ok |-> unpacked.has_value, offset |-> decoded.offset,
                  meta |-> IF unpacked.has_value THEN unpacked.value
                           ELSE DefaultMetadata]

\* DecodeMetadata: ok, the value left in offset, and the metadata
DecodeMetadata(payload) ==
  LET decoded == DecodeZeroWidthBits(payload, 0, TRUE)
  IN  IF Len(decoded.bits) # 24 * 8
        THEN [ok |-> FALSE, offset |-> 0, meta |-> DefaultMetadata]
        ELSE LET unpacked == UnpackMetadata(BitsToBytes(decoded.bits))
             IN  IF ~unpacked.has_value
                   THEN [ok |-> FALSE, offset |-> 0, meta |-> DefaultMetadata]
                   ELSE [ok |-> TRUE, offset |-> decoded.offset,
                         meta |-> unpacked.value]

\* the bit Embed writes after the token of index token_index, if it has one
TokenBit(bits, token_index) ==
  IF token_index < Len(bits)
    THEN EncodeZeroWidthBits(<<bits[token_index + 1]>>, FALSE)
    ELSE <<>>

\* the walk of Embed over cleaned[k..]; run is [out, current_token, token_index]
RECURSIVE EmbedWalk(_, _, _, _)
EmbedWalk(cleaned, k, bits, run) ==
  IF k > Len(cleaned) THEN run
  ELSE LET c == cleaned[k]
       IN  EmbedWalk(cleaned, k + 1, bits,
             IF IsSpace(c)
               THEN IF run.current_token # <<>>
                      THEN [out |-> run.out \o run.current_token
                                      \o TokenBit(bits, run.token_index)
                                      \o <<c>>,
                            current_token |-> <<>>,
                            token_index |-> run.token_index + 1]
                      ELSE [run EXCEPT !.out = Append(@, c)]
               ELSE [run EXCEPT !.current_token = Append(@, c)])

\* DualEntropyTextWatermark::Embed
TextEmbed(payload, key, state_seed) ==
  LET cleaned == StripZeroWidth(payload)
      tokens == Tokenize(cleaned)
      metadata == [version |-> U32(1), state_seed |-> state_seed,
                   key_hash |-> StableHash(key),
                   fingerprint_length |-> U32(Len(tokens))]
      fingerprint_bits ==
        TextComputeCombinedBits(tokens, state_seed, metadata.key_hash)
      run == EmbedWalk(cleaned, 1, fingerprint_bits,
                       [out |-> EncodeMetadata(metadata),
                        current_token |-> <<>>, token_index |-> 0])
  IN  [watermarked_text |->
         IF run.current_token # <<>>
           THEN run.out \o run.current_token
                  \o TokenBit(fingerprint_bits, run.token_index)
           ELSE run.out,
       metadata |-> metadata,
       fingerprint_bits |-> fingerprint_bits]

\* the scan of Detect from offset i; current is written and never read
RECURSIVE ExtractLoop(_, _, _, _, _)
ExtractLoop(payload, i, num_tokens, token_index, extracted) ==
  IF i >= Len(payload) THEN extracted
  ELSE LET unit == DecodeOrByte(payload, i)
       IN  IF IsSpace(payload[i + 1])
             THEN ExtractLoop(payload, i + unit.consumed, num_tokens,
                              token_index, extracted)
           ELSE IF unit.cp = kZeroWidthZero \/ unit.cp = kZeroWidthOne
             THEN IF token_index < num_tokens
                    THEN ExtractLoop(payload, i + unit.consumed, num_tokens,
                           token_index + 1,
                           Append(extracted,
                                  IF unit.cp = kZeroWidthOne THEN 1 ELSE 0))
                    ELSE ExtractLoop(payload, i + unit.consumed, num_tokens,
                                     token_index, extracted)
           ELSE ExtractLoop(payload, i + unit.consumed, num_tokens,
                            token_index, extracted)

\* DualEntropyTextWatermark::Detect
TextDetect(payload) ==
  LET decoded == DecodeMetadata(payload)
      meta == decoded.meta
      offset == decoded.offset
  IN  IF ~decoded.ok \/ meta.version # U32(1)
        THEN [DefaultDetection EXCEPT !.metadata_valid = FALSE,
                                      !.false_positive_rate = FpOne]
      ELSE IF offset > Len(payload)
        THEN [DefaultDetection EXCEPT !.metadata_valid = TRUE,
                                      !.raised = "out_of_range"]
      ELSE LET stripped ==
                 StripZeroWidth(SubSeq(payload, offset + 1, Len(payload)))
               tokens == Tokenize(stripped)
               expected ==
                 TextComputeCombinedBits(tokens, meta.state_seed, meta.key_hash)
               extracted == ExtractLoop(payload, offset, Len(tokens), 0, <<>>)
           IN  ScoreBits(expected, extracted)

-----------------------------------------------------------------------------
(* GW-DE: DualEntropyImageWatermark (watermark.cpp 422-581); an ImagePayload
   is [bytes, height, width, channels] *)

TotalPixels(payload) == payload.height * payload.width * payload.channels

\* SetLsb that assigns the bit to the sample
SetLsb_Assign(byte, bit) == bit

\* (byte & 0xFE) | bit
SetLsb(byte, bit) == (byte - (byte % 2)) + bit

\* the content bit of the sample byte at index idx
ContentBit(byte, idx) ==
  StableHash64(Xor64(<<0, 0, byte, 0>>, Word(idx)))[1] % 2

ImageComputeCombinedBits(payload, skip_bits, state_seed, key_hash) ==
  LET total_pixels == TotalPixels(payload)
      seed == Xor64(state_seed, key_hash)
  IN  IF total_pixels <= skip_bits THEN <<>>
      ELSE Eager([k \in 1..(total_pixels - skip_bits) |->
                    LET idx == skip_bits + k - 1
                    IN  XorBit(ContentBit(payload.bytes[idx + 1], idx),
                               RngBit(seed, k))])

\* InjectMetadata: the bytes of payload afterwards
InjectMetadata(payload, meta) ==
  LET bits == BytesToBits(PackMetadata(meta), 1)
  IN  Eager([k \in 1..Len(payload.bytes) |->
               IF k <= kMetadataBits * kMetadataRepeat
                 THEN SetLsb(payload.bytes[k],
                             bits[((k - 1) \div kMetadataRepeat) + 1])
                 ELSE payload.bytes[k]])

\* the bytes of Embed's result: the metadata, then the fingerprint bits
EmbedBytes(payload, metadata, fingerprint_bits) ==
  LET injected == InjectMetadata(payload, metadata)
  IN  Eager([k \in 1..Len(injected) |->
               IF k > kMetadataPayloadBits
                    /\ k <= kMetadataPayloadBits + Len(fingerprint_bits)
                 THEN SetLsb(injected[k],
                             fingerprint_bits[k - kMetadataPayloadBits])
                 ELSE injected[k]])

\* TooSmall that lets an image of exactly metadata_bits samples through
TooSmall_Strict(total_pixels, metadata_bits) == total_pixels < metadata_bits

\* the test of Embed on the size of the image
TooSmall(total_pixels, metadata_bits) == total_pixels <= metadata_bits

\* what Embed returns when it throws
ImageEmbedError(payload, what) ==
  [error |-> "invalid_argument", what |-> what, payload |-> payload,
   metadata |-> DefaultMetadata, fingerprint_bits |-> <<>>]

\* DualEntropyImageWatermark::Embed
ImageEmbed(payload, key, state_seed) ==
  LET total_pixels == TotalPixels(payload)
      metadata_bits == kMetadataPayloadBits
      metadata == [version |-> U32(1), state_seed |-> state_seed,
                   key_hash |-> StableHash(key),
                   fingerprint_length |-> U32(total_pixels - metadata_bits)]
      fingerprint_bits ==
        ImageComputeCombinedBits(payload, metadata_bits, state_seed,
                                 metadata.key_hash)
  IN  IF payload.bytes = <<>> \/ total_pixels = 0
        THEN ImageEmbedError(payload, "Image payload is empty")
      ELSE IF TooSmall(total_pixels, metadata_bits)
        THEN ImageEmbedError(payload, "Image too small for metadata encoding")
      ELSE [error |-> "none", what |-> "",
            payload |-> [payload EXCEPT
                           !.bytes = EmbedBytes(payload, metadata,
                                                fingerprint_bits)],
            metadata |-> metadata,
            fingerprint_bits |-> fingerprint_bits]

\* MajorityBit that wants every copy of the bit to be a one
MajorityBit_Unanimous(ones) == IF ones > kMetadataRepeat - 1 THEN 1 ELSE 0

\* the vote of one repetition group
MajorityBit(ones) == IF ones > kMetadataRepeat \div 2 THEN 1 ELSE 0

\* the ones among the kMetadataRepeat slots of a metadata bit (bit from 0)
RECURSIVE GroupOnes(_, _, _)
GroupOnes(bits, bit, rep) ==
  IF rep = 0 THEN 0
  ELSE LET slot == bit * kMetadataRepeat + (rep - 1)
       IN  GroupOnes(bits, bit, rep - 1)
             + (IF slot < Len(bits) THEN bits[slot + 1] % 2 ELSE 0)

\* DualEntropyImageWatermark::ExtractMetadata: ok and the metadata
ExtractMetadata(payload) ==
  LET metadata_bits == kMetadataPayloadBits
      bits == Eager([k \in 1..metadata_bits |-> payload.bytes[k] % 2])
      majority_bits ==
        Eager([k \in 1..kMetadataBits |->
                 MajorityBit(GroupOnes(bits, k - 1, kMetadataRepeat))])
      meta == UnpackMetadata(BitsToBytes(majority_bits))
  IN  IF Len(payload.bytes) < metadata_bits
        THEN [ok |-> FALSE, meta |-> DefaultMetadata]
        ELSE [ok |-> meta.has_value,
              meta |-> IF meta.has_value THEN meta.value ELSE DefaultMetadata]

\* DualEntropyImageWatermark::Detect
ImageDetect(payload) ==
  LET extracted_meta == ExtractMetadata(payload)
      meta == extracted_meta.meta
      total_pixels == TotalPixels(payload)
      metadata_bits == kMetadataPayloadBits
      valid == [DefaultDetection EXCEPT !.metadata_valid = TRUE]
  IN  IF payload.bytes = <<>> \/ total_pixels = 0
        THEN [DefaultDetection EXCEPT !.metadata_valid = FALSE]
      ELSE IF ~extracted_meta.ok \/ meta.version # U32(1)
        THEN [DefaultDetection EXCEPT !.metadata_valid = FALSE,
                                      !.false_positive_rate = FpOne]
      ELSE IF total_pixels <= metadata_bits
                \/ U32Greater(meta.fingerprint_length,
                              total_pixels - metadata_bits)
        THEN [valid EXCEPT !.false_positive_rate = FpOne]
      ELSE LET expected ==
                 ImageComputeCombinedBits(payload, metadata_bits,
                                          meta.state_seed, meta.key_hash)
               extracted ==
                 Eager([i \in 1..U32Value(meta.fingerprint_length) |->
                          payload.bytes[i + metadata_bits] % 2])
           IN  ScoreBits(expected, extracted)

-----------------------------------------------------------------------------
(* GW-DE callers: a payload, Embed, what is done to the result, Detect *)

\* the variables of an FTMA run, which a GW-DE run leaves alone
ftma_vars ==
  <<num_clients_, threshold_, metric_dimension_, scale_, clients_, prng_, last,
    shamir, caller>>

\* no coordinator and no Shamir object in a GW-DE run
NoFtma == NoCoordinator /\ shamir = NoShamir /\ caller = NoCaller

\* keys: the empty string and "k"
Keys == {<<>>, <<107>>}

\* state seeds: 0 and 0x8000000012340ffff
StateSeeds == {Word(0), <<65535, 4660, 0, 32768>>}

\* the bytes texts are made of: space, 'a', the lead byte of a two-byte form
\* and a continuation byte (0xC3 0xA9 is U+00E9), the lead byte of the
\* three-byte forms
TextBytes == {32, 97, 195, 169, 226}

\* texts of up to MaxTextLen bytes
ShortTexts == UNION {[1..n -> TextBytes] : n \in 0..MaxTextLen}

\* metadata a forged header carries
ForgedMetadata ==
  {[version |-> U32(v), state_seed |-> Word(0), key_hash |-> Word(0),
    fingerprint_length |-> length] :
     v \in {1, 2}, length \in {U32(0), U32(1), <<0, 1>>}}

\* texts that start like a header: whole headers, a header of 191 bits, a
\* header that ends inside its end sentinel, a start sentinel on its own
ForgedTexts ==
  {EncodeMetadata(m) \o <<97>> : m \in ForgedMetadata}
    \cup {EncodeZeroWidthBits([k \in 1..(kMetadataBits - 1) |-> 0], TRUE),
          SubSeq(EncodeMetadata(DefaultMetadata), 1,
                 Len(EncodeMetadata(DefaultMetadata)) - 1),
          EncodeCodePoint(kZeroWidthMetaStart)}

TextInputs == ShortTexts \cup ForgedTexts

\* what Embed has returned before it is called
NoEmbed == [error |-> "none"]

\* a caller with a text (kind "text") or an image (kind "image"): subject is
\* the payload it holds now, tamper what it did to Embed's result
Caller(kind, payload, key, state_seed) ==
  [pc |-> "new", kind |-> kind, payload |-> payload, key |-> key,
   state_seed |-> state_seed, subject |-> payload, tamper |-> "none",
   at |-> 0, embed |-> NoEmbed, detection |-> DefaultDetection,
   extracted |-> DefaultMetadata]

InitText ==
  /\ NoFtma
  /\ \E payload \in TextInputs, key \in Keys, state_seed \in StateSeeds :
       gwde = Caller("text", payload, key, state_seed)

\* result = DualEntropyTextWatermark::Embed(payload, key, state_seed)
TextEmbedCall ==
  /\ gwde.kind = "text" /\ gwde.pc = "new"
  /\ LET result == TextEmbed(gwde.payload, gwde.key, gwde.state_seed)
     IN  gwde' = [gwde EXCEPT !.pc = "embedded", !.embed = result,
                              !.subject = result.watermarked_text]
  /\ UNCHANGED ftma_vars

\* the caller strips the zero-width code points of the watermarked text
TextStripCall ==
  /\ gwde.kind = "text" /\ gwde.pc = "embedded" /\ gwde.tamper = "none"
  /\ gwde' = [gwde EXCEPT !.tamper = "strip",
                          !.subject = StripZeroWidth(gwde.subject)]
  /\ UNCHANGED ftma_vars

\* detection = DualEntropyTextWatermark::Detect(subject)
TextDetectCall ==
  /\ gwde.kind = "text" /\ gwde.pc \in {"new", "embedded"}
  /\ gwde' = [gwde EXCEPT !.pc = "detected",
                          !.detection = TextDetect(gwde.subject)]
  /\ UNCHANGED ftma_vars

NextText == TextEmbedCall \/ TextStripCall \/ TextDetectCall

SpecText == InitText /\ [][NextText]_vars

-----------------------------------------------------------------------------
(* strip_zero_width on arbitrary byte strings, applied twice *)

\* 'a', the lead bytes of the two- and three-byte forms, and the continuation
\* bytes of U+200B (0xE2 0x80 0x8B)
StripBytes == {97, 195, 226, 128, 139}

StripInputs == UNION {[1..n -> StripBytes] : n \in 0..MaxStripLen}

InitStrip ==
  /\ NoFtma
  /\ \E payload \in StripInputs :
       gwde = [pc |-> "new", kind |-> "strip", payload |-> payload,
               once |-> <<>>, twice |-> <<>>]

\* once = StripZeroWidth(payload)
StripOnce ==
  /\ gwde.kind = "strip" /\ gwde.pc = "new"
  /\ gwde' = [gwde EXCEPT !.pc = "stripped",
                          !.once = StripZeroWidth(gwde.payload)]
  /\ UNCHANGED ftma_vars

\* twice = StripZeroWidth(once)
StripTwice ==
  /\ gwde.kind = "strip" /\ gwde.pc = "stripped"
  /\ gwde' = [gwde EXCEPT !.pc = "stripped_twice",
                          !.twice = StripZeroWidth(gwde.once)]
  /\ UNCHANGED ftma_vars

NextStrip == StripOnce \/ StripTwice

SpecStrip == InitStrip /\ [][NextStrip]_vars

-----------------------------------------------------------------------------
(* images: a caller builds an ImagePayload the way the binding does, with
   bytes.size() = height * width * channels (python_module.cpp 36-41) *)

ImageOf(bytes, height, width, channels) ==
  [bytes |-> bytes, height |-> height, width |-> width, channels |-> channels]

\* n samples of the same value
Filled(n, value) == Eager([k \in 1..n |-> value])

\* sample values after the metadata block
SampleValues == {0, 2, 3, 255}

\* sample values of the metadata block
MetaFills == {0, 255}

\* one row of kMetadataPayloadBits + k samples, 1 <= k <= MaxFingerprint
RowImages ==
  {ImageOf(Filled(kMetadataPayloadBits, fill) \o samples, 1,
           kMetadataPayloadBits + Len(samples), 1) :
     fill \in MetaFills,
     samples \in UNION {[1..k -> SampleValues] : k \in 1..MaxFingerprint}}

\* the empty image, a 2 x 2 image and 16 x 16 x 3 images (768 samples)
SmallImages ==
  {ImageOf(<<>>, 0, 0, 1), ImageOf(Filled(4, 255), 2, 2, 1),
   ImageOf(Filled(768, 0), 16, 16, 3), ImageOf(Filled(768, 255), 16, 16, 3)}

\* images that carry a metadata block Embed did not write
ForgedImages ==
  {[image EXCEPT !.bytes = InjectMetadata(image, m)] :
     image \in {ImageOf(Filled(768, 0), 16, 16, 3),
                ImageOf(Filled(770, 2), 1, 770, 1)},
     m \in ForgedMetadata}

ImageInputs == RowImages \cup SmallImages \cup ForgedImages

InitImage ==
  /\ NoFtma
  /\ \E payload \in ImageInputs, key \in Keys, state_seed \in StateSeeds :
       gwde = Caller("image", payload, key, state_seed)

\* result = DualEntropyImageWatermark::Embed(payload, key, state_seed)
ImageEmbedCall ==
  /\ gwde.kind = "image" /\ gwde.pc = "new"
  /\ LET result == ImageEmbed(gwde.payload, gwde.key, gwde.state_seed)
     IN  gwde' = [gwde EXCEPT
                    !.pc = IF result.error = "none" THEN "embedded"
                           ELSE "failed",
                    !.embed = result, !.subject = result.payload]
  /\ UNCHANGED ftma_vars

\* byte ^ 1
FlipLsb(byte) == IF byte % 2 = 0 THEN byte + 1 ELSE byte - 1

\* the caller flips the least significant bit of sample i (from 0) of the
\* watermarked image, a sample after the metadata block
ImageFlipCall(i) ==
  /\ gwde.kind = "image" /\ gwde.pc = "embedded" /\ gwde.tamper = "none"
  /\ i >= kMetadataPayloadBits /\ i < Len(gwde.subject.bytes)
  /\ gwde' = [gwde EXCEPT !.tamper = "flip", !.at = i,
                          !.subject.bytes[i + 1] = FlipLsb(@)]
  /\ UNCHANGED ftma_vars

\* the slot (0..kMetadataRepeat - 1) flipped in group g by the corruption
\* <<a, b>>; kMetadataRepeat when the group is left alone
CorruptSlot(pattern, g) == (pattern[1] * g + pattern[2]) % (kMetadataRepeat + 1)

\* corruptions of the metadata block with at most one flip in each group
Corruptions == {<<0, 0>>, <<0, 3>>, <<1, 0>>, <<3, 2>>}

\* the caller flips the least significant bit of at most one sample in each
\* group of kMetadataRepeat samples of the metadata block
ImageCorruptCall(pattern) ==
  /\ gwde.kind = "image" /\ gwde.pc = "embedded" /\ gwde.tamper = "none"
  /\ gwde' =
       [gwde EXCEPT
          !.tamper = "metadata", !.at = pattern,
          !.subject.bytes =
            Eager([k \in 1..Len(@) |->
                     IF k <= kMetadataPayloadBits
                          /\ CorruptSlot(pattern, (k - 1) \div kMetadataRepeat)
                               = (k - 1) % kMetadataRepeat
                       THEN FlipLsb(@[k]) ELSE @[k]])]
  /\ UNCHANGED ftma_vars

\* detection = DualEntropyImageWatermark::Detect(subject); extracted is the
\* metadata its ExtractMetadata call returned
ImageDetectCall ==
  /\ gwde.kind = "image" /\ gwde.pc \in {"new", "embedded"}
  /\ gwde' = [gwde EXCEPT !.pc = "detected",
                          !.detection = ImageDetect(gwde.subject),
                          !.extracted = ExtractMetadata(gwde.subject).meta]
  /\ UNCHANGED ftma_vars

NextImage ==
  \/ ImageEmbedCall
  \/ \E i \in kMetadataPayloadBits..(kMetadataPayloadBits + MaxFingerprint) :
       ImageFlipCall(i)
  \/ \E pattern \in Corruptions : ImageCorruptCall(pattern)
  \/ ImageDetectCall

SpecImage == InitImage /\ [][NextImage]_vars

-----------------------------------------------------------------------------
(* text and image callers together *)

InitGwde == InitText \/ InitImage

NextGwde == NextText \/ NextImage

SpecGwde == InitGwde /\ [][NextGwde]_vars

-----------------------------------------------------------------------------
(* what the claims speak of *)

Registered == {id \in ClientIds : clients_[id].registered}

\* the clients an active list names
ActiveSet(active_clients) == {active_clients[k] : k \in 1..Len(active_clients)}

Distinct(list) ==
  \A i, j \in 1..Len(list) : i # j => list[i] # list[j]

\* the list names registered clients only
AllRegistered(active_clients) ==
  \A k \in 1..Len(active_clients) :
    /\ active_clients[k] < num_clients_
    /\ clients_[active_clients[k]].registered

\* the sum, in the field, of the scaled values and squares of the clients in ids
RECURSIVE ScaledSum(_)
ScaledSum(ids) ==
  IF ids = {} THEN ZeroVec(vector_dimension_)
  ELSE LET id == CHOOSE x \in ids : TRUE
       IN  VecAdd(ScaledVector(clients_[id].original_metrics),
                  ScaledSum(ids \ {id}))

\* the sum, in the integers, of the i-th scaled values of the clients in ids
RECURSIVE SignedSum(_, _)
SignedSum(ids, i) ==
  IF ids = {} THEN 0
  ELSE LET id == CHOOSE x \in ids : TRUE
       IN  ScaledInt(clients_[id].original_metrics[i]) + SignedSum(ids \ {id}, i)

\* a signed value the field represents (the spec's exactness condition)
InRange(v) == -(kModulus \div 2) <= v /\ v <= kModulus \div 2

\* Finalize was called with a list of distinct registered clients, at least
\* threshold_ of them
ValidFinalize ==
  /\ last.op = "finalize"
  /\ Distinct(last.active)
  /\ AllRegistered(last.active)
  /\ Len(last.active) >= threshold_

-----------------------------------------------------------------------------
(* the claims *)

\* C1: for every set of registered clients and every Finalize on a list of
\* distinct registered clients, at least t of them, the aggregate Finalize
\* decodes is, component by component modulo p, the sum over all registered
\* clients of their scaled values and squares: every mask has cancelled.
C1_AggregateIsRegisteredSum ==
  ValidFinalize =>
    /\ last.error = "none"
    /\ last.aggregate = ScaledSum(Registered)

\* C2: with all N clients registered and a list of at least t distinct active
\* ids, the vector Finalize reconstructs for every client that is not active is
\* that client's personal_mask, the sum returned is the sum over all N clients,
\* participants = N and survivors = |active|.
C2_DroppedMaskReconstructed ==
  (ValidFinalize /\ Registered = ClientIds) =>
    /\ last.error = "none"
    /\ DOMAIN last.reconstructed = ClientIds \ ActiveSet(last.active)
    /\ \A d \in ClientIds \ ActiveSet(last.active) :
         last.reconstructed[d] = clients_[d].personal_mask
    /\ last.aggregate = ScaledSum(ClientIds)
    /\ \A i \in 1..metric_dimension_ :
         InRange(SignedSum(ClientIds, i)) =>
           last.result.sum[i] = SignedSum(ClientIds, i)
    /\ last.result.participants = num_clients_
    /\ last.result.survivors = Len(last.active)

\* C2 witness: a client dropped out of a full registration and the sum came back
C2_Witness ==
  /\ ValidFinalize /\ Registered = ClientIds
  /\ \E d \in ClientIds \ ActiveSet(last.active) :
       /\ d \in DOMAIN last.reconstructed
       /\ \E i \in 1..vector_dimension_ : last.reconstructed[d][i] # 0
  /\ last.result.sum[1] = SignedSum(ClientIds, 1)
  /\ last.result.sum[1] # 0

\* C3: when some clients never registered and every registered client is
\* active, Finalize undoes the pairwise mask of every pair (survivor s, never
\* registered m) exactly once, from s's pairwise_seeds[m] and with the sign
\* opposite to registration, so that no such mask remains in the aggregate.
C3_MissingPairwiseCancelled ==
  (ValidFinalize /\ ActiveSet(last.active) = Registered
                 /\ Registered # ClientIds) =>
    /\ last.error = "none"
    /\ {last.cancelled[k] : k \in 1..Len(last.cancelled)}
         = Registered \X (ClientIds \ Registered)
    /\ Distinct(last.cancelled)
    /\ \A k \in 1..Len(last.cancelled) :
         clients_[last.cancelled[k][1]].pairwise_seeds[last.cancelled[k][2]]
           = PairSeed(last.cancelled[k][1], last.cancelled[k][2])
    /\ last.aggregate = ScaledSum(Registered)

\* C3 witness: two clients never registered, one of them with a smaller id
\* than a survivor and one with a larger id
C3_Witness ==
  /\ ValidFinalize /\ ActiveSet(last.active) = Registered
  /\ last.error = "none"
  /\ \E s \in Registered, m1, m2 \in ClientIds \ Registered : m1 < s /\ s < m2
  /\ \E i \in 1..vector_dimension_ : last.aggregate[i] # 0

\* C4: with a client that never registered and a strict subset of the
\* registered clients active (at least t, distinct), Finalize succeeds and the
\* sum it returns is the sum of the metrics of the active clients, with every
\* variance component >= 0.
C4_ActiveSumReturned ==
  (ValidFinalize /\ Registered # ClientIds
                 /\ ActiveSet(last.active) # Registered) =>
    /\ last.error = "none"
    /\ \A i \in 1..metric_dimension_ :
         /\ last.result.sum[i] = SignedSum(ActiveSet(last.active), i)
         /\ last.result.variance[i][1] >= 0

\* C5: Finalize fails and returns no AggregationResult whenever its list names
\* fewer than t distinct clients.
C5_BelowThresholdFails ==
  (last.op = "finalize"
     /\ Cardinality(ActiveSet(last.active)) < threshold_) =>
    /\ last.error # "none"
    /\ last.result = NoResult

\* C6: while fewer than t clients have registered, every Finalize call fails,
\* whatever list is passed.
C6_BeforeThresholdFails ==
  (last.op = "finalize" /\ Cardinality(Registered) < threshold_) =>
    last.error # "none"

\* C7: registered starts false, becomes true only through a successful
\* register_client for that id and is never false again; a register_client for
\* a registered id fails and leaves masked_payload and personal_mask as stored.
C7_RegisteredMonotone ==
  /\ \A id \in ClientIds : ~clients_[id].registered
  /\ [][/\ \A id \in ClientIds :
             /\ clients_[id].registered =>
                  /\ clients_'[id].registered
                  /\ clients_'[id].masked_payload = clients_[id].masked_payload
                  /\ clients_'[id].personal_mask = clients_[id].personal_mask
             /\ (~clients_[id].registered /\ clients_'[id].registered) =>
                  /\ last'.op = "register"
                  /\ last'.client_id = id
                  /\ last'.error = "none"
        /\ (/\ last.op = "idle" /\ last'.op = "register"
            /\ last'.client_id < num_clients_
            /\ clients_[last'.client_id].registered) =>
             last'.error = "already_registered"]_vars

\* C7 witness: a second register_client for a registered id has been refused
C7_Witness ==
  /\ last.op = "register"
  /\ last.error = "already_registered"
  /\ clients_[last.client_id].registered
  /\ Len(last.metrics) = metric_dimension_
  /\ last.metrics # clients_[last.client_id].original_metrics

\* C8: register_client fails exactly when id >= N, the id is registered or
\* |metrics| # D, and a failing call leaves every field of every ClientState as
\* it was.
C8_FailedRegisterChangesNothing ==
  [][(last.op = "idle" /\ last'.op = "register") =>
       /\ (last'.error # "none") <=>
            (\/ last'.client_id >= num_clients_
             \/ clients_[last'.client_id].registered
             \/ Len(last'.metrics) # metric_dimension_)
       /\ (last'.error # "none") => (clients_' = clients_)]_vars

\* C9: Finalize fails whenever its list holds an id >= N or the id of a client
\* that has not registered, however many valid ids it holds besides (the error
\* is that of the size check when the list is shorter than t, that of the
\* registration check otherwise), and then nothing is aggregated.
C9_UnregisteredActiveFails ==
  (last.op = "finalize" /\ ~AllRegistered(last.active)) =>
    /\ last.error = (IF Len(last.active) < threshold_
                       THEN "below_threshold" ELSE "not_registered")
    /\ last.aggregate = <<>>
    /\ last.result = NoResult

\* C9 witness: a list of more than t entries, all but one of them registered
\* clients, at least t of them distinct, was refused
C9_Witness ==
  /\ last.op = "finalize"
  /\ last.error = "not_registered"
  /\ Len(last.active) > threshold_
  /\ Cardinality(ActiveSet(last.active) \cap Registered) >= threshold_
  /\ Cardinality({k \in 1..Len(last.active) :
                    last.active[k] \notin Registered}) = 1

\* C10: for every secret vector, every 1 <= t <= N, every draw of the higher
\* coefficients and every list of k >= t distinct parties, Reconstruct on those
\* parties' rows of ShareVector(secret), with x = party index + 1, returns the
\* secret.
C10_ShamirRoundTrip ==
  (shamir.pc = "done" /\ Len(shamir.parties) >= shamir.threshold) =>
    /\ shamir.error = "none"
    /\ shamir.recovered = shamir.secret

\* C10 witness: a secret recovered from more than t >= 2 parties whose shares
\* are not the secret itself
C10_Witness ==
  /\ shamir.pc = "done"
  /\ shamir.threshold >= 2
  /\ Len(shamir.parties) > shamir.threshold
  /\ shamir.recovered = shamir.secret
  /\ \A k \in 1..Len(shamir.parties) :
       shamir.shares[shamir.parties[k] + 1] # shamir.secret

-----------------------------------------------------------------------------
(* what the GW-DE claims speak of *)

\* Embed has returned a result to the caller
Embedded == gwde.embed # NoEmbed

\* Detect has run on what Embed returned, unmodified
DetectedUnmodified(kind) ==
  gwde.kind = kind /\ gwde.pc = "detected" /\ Embedded /\ gwde.tamper = "none"

\* Detect has run on what Embed returned after the caller did tamper to it
DetectedAfter(kind, tamper) ==
  gwde.kind = kind /\ gwde.pc = "detected" /\ Embedded /\ gwde.tamper = tamper

\* a score of 1.0
IsOne(score) == score.num = score.den

\* the whitespace-delimited tokens of a text, its zero-width code points aside
TokensOf(payload) == Tokenize(StripZeroWidth(payload))

\* byte & 0xFE
UpperBits(byte) == byte - (byte % 2)

\* C11: for every text payload (no token at all included), key and state seed,
\* Detect on the unmodified text Embed returned reports valid metadata, a score
\* of 1.0 and as many bits as the payload has tokens.
C11_TextRoundTrip ==
  DetectedUnmodified("text") =>
    /\ gwde.detection.metadata_valid
    /\ IsOne(gwde.detection.score)
    /\ gwde.detection.total_bits = Len(TokensOf(gwde.payload))

\* C12: for every image of more than 768 samples, key and state seed, Detect on
\* the unmodified image Embed returned reports valid metadata, total_bits =
\* samples - 768 and a score of 1.0.
C12_ImageRoundTrip ==
  DetectedUnmodified("image") =>
    /\ gwde.detection.metadata_valid
    /\ gwde.detection.total_bits
         = TotalPixels(gwde.payload) - kMetadataPayloadBits
    /\ IsOne(gwde.detection.score)

\* C13: after the least significant bit of one sample i >= 768 of a watermarked
\* image is flipped, Detect reports the same total_bits as on the unmodified
\* image and matching_bits = total_bits - 1.
C13_OneFlipOneMismatch ==
  DetectedAfter("image", "flip") =>
    /\ gwde.detection.total_bits = ImageDetect(gwde.embed.payload).total_bits
    /\ gwde.detection.matching_bits = gwde.detection.total_bits - 1

\* C14: when at most one least significant bit is flipped in each group of 4
\* samples of the metadata block InjectMetadata wrote, ExtractMetadata returns
\* the version, state_seed, key_hash and fingerprint_length that were written.
C14_MetadataSurvivesFlips ==
  DetectedAfter("image", "metadata") => gwde.extracted = gwde.embed.metadata

\* C14 witness: a metadata block with a 64-bit state seed and the hash of a
\* key, corrupted in a different slot from group to group, was read back
C14_Witness ==
  /\ DetectedAfter("image", "metadata")
  /\ gwde.at = <<3, 2>>
  /\ gwde.subject.bytes # gwde.embed.payload.bytes
  /\ gwde.embed.metadata.state_seed = <<65535, 4660, 0, 32768>>
  /\ gwde.embed.metadata.key_hash = StableHash(<<107>>)
  /\ gwde.extracted = gwde.embed.metadata

\* C15: Detect on strip_zero_width of the text Embed returned reports invalid
\* metadata and a false positive rate of 1.0, with score 0 and total_bits 0.
C15_StrippedTextInvalid ==
  DetectedAfter("text", "strip") =>
    /\ ~gwde.detection.metadata_valid
    /\ gwde.detection.false_positive_rate = FpOne
    /\ gwde.detection.score = ZeroScore
    /\ gwde.detection.total_bits = 0

\* C15 witness: a text of two tokens was embedded, stripped (which removed the
\* header and both bits) and handed to Detect
C15_Witness ==
  /\ DetectedAfter("text", "strip")
  /\ Len(gwde.embed.fingerprint_bits) = 2
  /\ gwde.subject = gwde.payload
  /\ Len(gwde.embed.watermarked_text) > Len(gwde.subject) + 3 * kMetadataBits
  /\ ~gwde.detection.metadata_valid

\* C16: Detect, on a text or on an image, returns a result for every payload and
\* never raises; when the result has metadata_valid = false it is exactly
\* score 0, false positive rate 1.0, total_bits 0, matching_bits 0.
C16_DetectReturnsResult ==
  gwde.pc = "detected" =>
    /\ gwde.detection.raised = "none"
    /\ ~gwde.detection.metadata_valid =>
         /\ gwde.detection.score = ZeroScore
         /\ gwde.detection.false_positive_rate = FpOne
         /\ gwde.detection.total_bits = 0
         /\ gwde.detection.matching_bits = 0

\* C16 witness: Detect answered an empty image with metadata_valid = false
C16_Witness ==
  /\ gwde.kind = "image" /\ gwde.pc = "detected"
  /\ gwde.subject.bytes = <<>>
  /\ ~gwde.detection.metadata_valid
  /\ gwde.detection.raised = "none"

\* C17: the image Embed returns has the length, height, width and channels of
\* its input, every sample agrees with the input's in its upper seven bits, and
\* the caller's payload is as it was.
C17_EmbedChangesLsbOnly ==
  (gwde.kind = "image" /\ gwde.pc = "embedded" /\ gwde.tamper = "none") =>
    LET out == gwde.embed.payload
    IN  /\ Len(out.bytes) = Len(gwde.payload.bytes)
        /\ out.height = gwde.payload.height
        /\ out.width = gwde.payload.width
        /\ out.channels = gwde.payload.channels
        /\ \A k \in 1..Len(out.bytes) :
             UpperBits(out.bytes[k]) = UpperBits(gwde.payload.bytes[k])
        /\ gwde.subject = out

\* C17 witness: Embed changed a sample of the metadata block and a sample after
\* it, both of them samples with upper bits set
C17_Witness ==
  /\ gwde.kind = "image" /\ gwde.pc = "embedded" /\ gwde.tamper = "none"
  /\ \E k \in 1..kMetadataPayloadBits :
       /\ gwde.payload.bytes[k] > 1
       /\ gwde.embed.payload.bytes[k] # gwde.payload.bytes[k]
  /\ \E k \in (kMetadataPayloadBits + 1)..Len(gwde.payload.bytes) :
       /\ gwde.payload.bytes[k] > 1
       /\ gwde.embed.payload.bytes[k] # gwde.payload.bytes[k]

\* C18: image Embed fails with an invalid-argument error exactly when the
\* payload is empty or has at most 768 samples; on more than 768 samples it
\* succeeds, and metadata.fingerprint_length and the number of fingerprint bits
\* are both samples - 768.
C18_EmbedSizeCheck ==
  (gwde.kind = "image" /\ Embedded) =>
    LET total_pixels == TotalPixels(gwde.payload)
        small == gwde.payload.bytes = <<>> \/ total_pixels <= 768
    IN  /\ gwde.embed.error = (IF small THEN "invalid_argument" ELSE "none")
        /\ small <=> gwde.pc = "failed"
        /\ ~small =>
             /\ gwde.embed.metadata.fingerprint_length = U32(total_pixels - 768)
             /\ Len(gwde.embed.fingerprint_bits) = total_pixels - 768

\* C18 witness: an image of exactly 768 samples was refused
C18_Witness ==
  /\ gwde.kind = "image" /\ gwde.pc = "failed"
  /\ TotalPixels(gwde.payload) = 768
  /\ Len(gwde.payload.bytes) = 768
  /\ gwde.embed.error = "invalid_argument"

C20_PairSeedSymmetric ==
  /\ (last.op = "register" /\ last.error = "none") =>
       \A j \in ClientIds \ {last.client_id}, scale \in {scale_, 1000000} :
         MixSeed(last.client_id + 1, j + 1, scale)
           = MixSeed(j + 1, last.client_id + 1, scale)
  /\ \A i \in Registered, j \in Registered :
       i < j =>
         /\ clients_[i].pairwise_seeds[j] = clients_[j].pairwise_seeds[i]
         /\ GeneratePairwiseMask(clients_[i].pairwise_seeds[j])
              = GeneratePairwiseMask(clients_[j].pairwise_seeds[i])

\* C20 witness: two clients have registered and each holds the seed of the pair
C20_Witness ==
  \E i \in Registered, j \in Registered :
    /\ i < j
    /\ clients_[i].pairwise_seeds[j] = MixSeed(i + 1, j + 1, scale_)
    /\ clients_[j].pairwise_seeds[i] = clients_[i].pairwise_seeds[j]

-----------------------------------------------------------------------------
(* Claims C21..C30 *)

\* the masked payload of a registered client rebuilt from its state, leaving
\* out the pairwise mask it shares with the client "without"
RECURSIVE PayloadWithout(_, _, _, _)
PayloadWithout(client_id, without, other, payload) ==
  IF other >= num_clients_ THEN payload
  ELSE IF other = client_id \/ other = without
    THEN PayloadWithout(client_id, without, other + 1, payload)
  ELSE PayloadWithout(client_id, without, other + 1,
         ApplyPairwise(payload,
                       GeneratePairwiseMask(clients_[client_id].pairwise_seeds[other]),
                       client_id, other))

\* scaled metrics plus personal mask plus every pairwise mask but one
RestOfPayload(client_id, without) ==
  PayloadWithout(client_id, without, 0,
                 VecAdd(ScaledVector(clients_[client_id].original_metrics),
                        clients_[client_id].personal_mask))

\* C21: pairwise masks are antisymmetric and cancel: for registered i < j the
\* mask vector that i added to its masked_payload is the one j subtracted from
\* its own, so the sum of the two masked_payloads is the sum of the two
\* payloads without the mask of the pair.
C21_PairwiseMasksCancel ==
  \A i \in Registered, j \in Registered :
    i < j =>
      LET added      == GeneratePairwiseMask(clients_[i].pairwise_seeds[j])
          subtracted == GeneratePairwiseMask(clients_[j].pairwise_seeds[i])
      IN  /\ added = subtracted
          /\ clients_[i].masked_payload = VecAdd(RestOfPayload(i, j), added)
          /\ clients_[j].masked_payload
               = VecSub(RestOfPayload(j, i), subtracted)
          /\ VecAdd(clients_[i].masked_payload, clients_[j].masked_payload)
               = VecAdd(RestOfPayload(i, j), RestOfPayload(j, i))

\* C21 witness: two registered clients whose pairwise mask is not zero, so
\* each masked_payload differs from the payload without the mask
C21_Witness ==
  \E i \in Registered, j \in Registered :
    /\ i < j
    /\ GeneratePairwiseMask(clients_[i].pairwise_seeds[j])
         # ZeroVec(vector_dimension_)
    /\ clients_[i].masked_payload # RestOfPayload(i, j)
    /\ clients_[j].masked_payload # RestOfPayload(j, i)

\* C30: after a Finalize that returns, result.participants is the number of
\* registered clients, result.survivors the number of clients in the active
\* set, result.threshold is t, and t <= survivors <= participants <= N.
C30_ResultCounts ==
  (last.op = "finalize" /\ last.error = "none") =>
    /\ last.result.participants = Cardinality(Registered)
    /\ last.result.survivors = Cardinality(ActiveSet(last.active))
    /\ last.result.threshold = threshold_
    /\ threshold_ <= last.result.survivors
    /\ last.result.survivors <= last.result.participants
    /\ last.result.participants <= num_clients_

\* a step in which RegisterClient returns without throwing
RegisterReturns == last.op = "idle" /\ last'.op = "register" /\ last'.error = "none"

\* the entries of an incoming_shares map other than that of originator
SharesOfOthers(shares, originator) ==
  [id \in DOMAIN shares \ {originator} |-> shares[id]]

\* C26 as stated: a successful register_client(i) leaves every field of every
\* other ClientState j, incoming_shares included, unchanged.
C26_OnlyOwnState ==
  [][RegisterReturns =>
       \A j \in ClientIds \ {last'.client_id} : clients_'[j] = clients_[j]]_vars

\* C26: a successful register_client(i) changes ClientState i and, in every
\* other ClientState j, only the entry incoming_shares[i], which receives the
\* share of i's personal mask for j; registered, masked_payload,
\* personal_mask, pairwise_seeds, original_metrics and every other entry of
\* incoming_shares of j are unchanged.
C26_OnlyOwnStateAndShares ==
  [][RegisterReturns =>
       \A j \in ClientIds \ {last'.client_id} :
         /\ clients_'[j].registered = clients_[j].registered
         /\ clients_'[j].masked_payload = clients_[j].masked_payload
         /\ clients_'[j].personal_mask = clients_[j].personal_mask
         /\ clients_'[j].pairwise_seeds = clients_[j].pairwise_seeds
         /\ clients_'[j].original_metrics = clients_[j].original_metrics
         /\ DOMAIN clients_'[j].incoming_shares
              = DOMAIN clients_[j].incoming_shares \cup {last'.client_id}
         /\ SharesOfOthers(clients_'[j].incoming_shares, last'.client_id)
              = SharesOfOthers(clients_[j].incoming_shares, last'.client_id)
         /\ clients_'[j].incoming_shares[last'.client_id]
              = BuildPayload(last'.metrics,
                             clients_[last'.client_id].pairwise_seeds,
                             last'.client_id).mask_shares[j + 1]]_vars

\* C26 witness: a client has just registered, and a client that registered
\* before it holds its share beside the share of a third client
C26_Witness ==
  /\ last.op = "register"
  /\ last.error = "none"
  /\ \E j \in Registered \ {last.client_id} :
       /\ last.client_id \in DOMAIN clients_[j].incoming_shares
       /\ DOMAIN clients_[j].incoming_shares \ {last.client_id, j} # {}
       /\ clients_[j].masked_payload # <<>>

-----------------------------------------------------------------------------
(* a caller of field.h on its own: one Inverse or one signed round trip *)

\* everything but what the calling program holds
library_vars ==
  <<num_clients_, threshold_, metric_dimension_, scale_, clients_, prng_, last,
    shamir, gwde>>

\* a std::uint64_t argument (reduced or not) and a std::int64_t argument
InitField ==
  /\ NoCoordinator
  /\ shamir = NoShamir
  /\ gwde = NoWatermark
  /\ \E value \in 0..(2 * kModulus - 1), signed \in (-MaxSigned)..MaxSigned :
       caller = [pc |-> "new", value |-> value, signed |-> signed,
                 inverse |-> 0, product |-> 0, encoded |-> 0, decoded |-> 0]

\* inverse = Field::Inverse(value); product = Field::Mul(value, inverse)
FieldInverseCall ==
  /\ caller.pc = "new"
  /\ caller' = [caller EXCEPT !.pc = "inverted",
                              !.inverse = Inverse(caller.value),
                              !.product = Mul(caller.value, Inverse(caller.value))]
  /\ UNCHANGED library_vars

\* encoded = Field::FromSigned(signed); decoded = Field::ToSigned(encoded)
FieldSignedCall ==
  /\ caller.pc = "new"
  /\ caller' = [caller EXCEPT !.pc = "converted",
                              !.encoded = FromSigned(caller.signed),
                              !.decoded = ToSigned(FromSigned(caller.signed))]
  /\ UNCHANGED library_vars

NextField == FieldInverseCall \/ FieldSignedCall

SpecField == InitField /\ [][NextField]_vars

\* the elements of the field whose product with value is 1
InversesOf(value) == {x \in 0..(kModulus - 1) : Mul(value, x) = 1}

\* C23: for every a that is not zero in the field, Mul(a, Inverse(a)) = 1,
\* where Inverse(a) is Pow(a, p - 2), the square-and-multiply power of a
\* modulo p; and Inverse(0) = 0.
C23_InverseIsInverse ==
  caller.pc = "inverted" =>
    /\ caller.value % kModulus # 0 =>
         /\ caller.product = 1
         /\ caller.inverse = Pow(caller.value, kModulus - 2)
         /\ InversesOf(caller.value) = {caller.inverse}
    /\ caller.value = 0 => caller.inverse = 0

\* C23 witness: Inverse of a value other than 0 and 1, whose inverse is
\* another element, has been multiplied back
C23_Witness ==
  /\ caller.pc = "inverted"
  /\ caller.value \in 2..(kModulus - 1)
  /\ caller.inverse \notin {0, 1, caller.value}
  /\ caller.product = 1

\* C24: for every signed v with -floor(p/2) <= v <= floor(p/2),
\* ToSigned(FromSigned(v)) = v and FromSigned(v) lies in [0, p); ToSigned
\* returns the representative closest to 0 of its argument: value - p when
\* value > floor(p/2), value otherwise.
C24_SignedRoundTrip ==
  caller.pc = "converted" =>
    /\ InRange(caller.signed) =>
         /\ caller.decoded = caller.signed
         /\ caller.encoded \in 0..(kModulus - 1)
    /\ caller.decoded = IF caller.encoded > kModulus \div 2
                          THEN caller.encoded - kModulus
                          ELSE caller.encoded
    /\ InRange(caller.decoded)
    /\ (caller.decoded - caller.encoded) % kModulus = 0

\* C24 witness: a negative v of the range went to the upper half of the field
\* and came back
C24_Witness ==
  /\ caller.pc = "converted"
  /\ caller.signed < 0
  /\ InRange(caller.signed)
  /\ caller.encoded > kModulus \div 2
  /\ caller.decoded = caller.signed

-----------------------------------------------------------------------------
(* the constructor on its own: any parameter tuple, then one construction *)

\* ConstructorCheck that also refuses threshold = num_clients
ConstructorCheck_ThresholdBelow(num_clients, threshold, metric_dimension, scale) ==
  IF threshold = 0 \/ threshold >= num_clients THEN "invalid_argument"
  ELSE IF metric_dimension = 0 THEN "invalid_argument"
  ELSE IF scale = 0 THEN "invalid_argument"
  ELSE "none"

\* the checks in the body of the constructor (lines 34-42)
ConstructorCheck(num_clients, threshold, metric_dimension, scale) ==
  IF threshold = 0 \/ threshold > num_clients THEN "invalid_argument"
  ELSE IF metric_dimension = 0 THEN "invalid_argument"
  ELSE IF scale = 0 THEN "invalid_argument"
  ELSE "none"

\* the parameters a program is about to construct a coordinator with
InitConstruct ==
  /\ NoCoordinator
  /\ shamir = NoShamir
  /\ gwde = NoWatermark
  /\ \E num_clients \in 0..MaxClients, threshold \in 0..(MaxClients + 1),
        metric_dimension \in 0..MaxDimension, scale \in 0..MaxScale :
       caller = [pc |-> "new", num_clients |-> num_clients,
                 threshold |-> threshold,
                 metric_dimension |-> metric_dimension, scale |-> scale,
                 error |-> "none", dimension |-> 0]

\* FtmaCoordinator(num_clients, threshold, metric_dimension, scale), then
\* dimension() on the object if there is one
Construct ==
  /\ caller.pc = "new"
  /\ LET check == ConstructorCheck(caller.num_clients, caller.threshold,
                                   caller.metric_dimension, caller.scale)
     IN  IF check # "none"
           THEN /\ caller' = [caller EXCEPT !.pc = "failed", !.error = check]
                /\ UNCHANGED <<num_clients_, threshold_, metric_dimension_,
                               scale_, clients_, prng_>>
           ELSE /\ num_clients_' = caller.num_clients
                /\ threshold_' = caller.threshold
                /\ metric_dimension_' = caller.metric_dimension
                /\ scale_' = caller.scale
                /\ clients_' = [id \in 0..(caller.num_clients - 1) |->
                                  NewClientState]
                /\ prng_' \in 0..MaxSeed
                /\ caller' = [caller EXCEPT !.pc = "constructed",
                                            !.dimension = metric_dimension_']
  /\ UNCHANGED <<last, shamir, gwde>>

NextConstruct == Construct

SpecConstruct == InitConstruct /\ [][NextConstruct]_vars

\* C25: constructing a coordinator fails with an error exactly when
\* threshold = 0, threshold > num_clients, metric_dimension = 0 or scale = 0;
\* for every other parameter tuple it succeeds with all N clients unregistered
\* and dimension() = metric_dimension.
C25_ConstructorPreconditions ==
  caller.pc # "new" =>
    /\ caller.pc = "failed" <=>
         \/ caller.threshold = 0
         \/ caller.threshold > caller.num_clients
         \/ caller.metric_dimension = 0
         \/ caller.scale = 0
    /\ caller.pc = "failed" => caller.error = "invalid_argument"
    /\ caller.pc # "failed" =>
         /\ caller.pc = "constructed"
         /\ caller.error = "none"
         /\ DOMAIN clients_ = 0..(caller.num_clients - 1)
         /\ \A id \in DOMAIN clients_ : clients_[id] = NewClientState
         /\ Registered = {}
         /\ caller.dimension = caller.metric_dimension

\* C25 witness: a coordinator with several clients and threshold = num_clients
\* has been constructed
C25_Witness ==
  /\ caller.pc = "constructed"
  /\ caller.num_clients = MaxClients
  /\ caller.threshold = caller.num_clients
  /\ Cardinality(DOMAIN clients_) = MaxClients
  /\ caller.dimension = MaxDimension

-----------------------------------------------------------------------------
(* a caller that keeps what its latest Finalize returned and calls again *)

\* nothing finalized yet
NoFinalize ==
  [pc |-> "repeat", finalized |-> FALSE, active |-> <<>>, registered |-> {},
   error |-> "none", result |-> NoResult, grown |-> FALSE]

InitRepeat == InitCoordinator(SpecShape) /\ caller = NoFinalize

\* the caller takes the outcome of the call; of a Finalize it keeps the active
\* list, who was registered and what came back, and notes whether a Finalize
\* that returned counted more participants than the returned one before it
ReturnKeeping ==
  /\ last.op # "idle"
  /\ last' = CallRecord("idle", 0, <<>>, <<>>, "none")
  /\ caller' =
       IF last.op = "finalize"
         THEN [pc |-> "repeat", finalized |-> TRUE, active |-> last.active,
               registered |-> Registered, error |-> last.error,
               result |-> last.result,
               grown |-> /\ caller.finalized
                         /\ caller.error = "none"
                         /\ last.error = "none"
                         /\ last.result.participants
                              > caller.result.participants
                         /\ ActiveSet(last.active) \ caller.registered # {}]
         ELSE caller
  /\ UNCHANGED <<num_clients_, threshold_, metric_dimension_, scale_, clients_,
                 prng_, shamir, gwde>>

NextRepeat ==
  \/ \E client_id \in ClientIds, metrics \in MetricVectors :
       RegisterClient(client_id, metrics)
  \/ \E active_clients \in DistinctLists(ClientIds) : Finalize(active_clients)
  \/ ReturnKeeping

SpecRepeat == InitRepeat /\ [][NextRepeat]_vars

\* C27: Finalize is read-only: whether it returns or throws it leaves every
\* ClientState and the generator unchanged, so a Finalize with the same active
\* list as the caller's previous one, with no registration between them,
\* returns the same result (or the same error); and a client that registers
\* after a Finalize is counted by the next one.
C27_FinalizeReadOnly ==
  [][(last.op = "idle" /\ last'.op = "finalize") =>
       /\ clients_' = clients_
       /\ prng_' = prng_
       /\ (caller.finalized /\ caller.active = last'.active
             /\ caller.registered = Registered) =>
            /\ last'.error = caller.error
            /\ last'.result = caller.result
       /\ (caller.finalized /\ last'.error = "none") =>
            last'.result.participants = Cardinality(Registered)]_vars

\* C27 witness: a Finalize returned, a further client registered and the next
\* Finalize counted it and had it active; then the same Finalize was called
\* again and returned the same result
C27_Witness ==
  /\ last.op = "finalize"
  /\ last.error = "none"
  /\ caller.grown
  /\ caller.active = last.active
  /\ caller.registered = Registered
  /\ caller.result = last.result
  /\ last.result.participants >= 2

-----------------------------------------------------------------------------
(* GW-DE claims *)

\* the three bytes of payload that start at offset i
ThreeBytesAt(payload, i) == SubSeq(payload, i + 1, i + 3)

\* payload starts with U+2063, then exactly kMetadataBits bit code points,
\* then U+2064
WellFormedHeader(payload) ==
  /\ Len(payload) >= 3 * (kMetadataBits + 2)
  /\ ThreeBytesAt(payload, 0) = EncodeCodePoint(kZeroWidthMetaStart)
  /\ \A k \in 1..kMetadataBits :
       ThreeBytesAt(payload, 3 * k)
         \in {EncodeCodePoint(kZeroWidthZero), EncodeCodePoint(kZeroWidthOne)}
  /\ ThreeBytesAt(payload, 3 * (kMetadataBits + 1))
       = EncodeCodePoint(kZeroWidthMetaEnd)

\* C28: text Detect reports metadata_valid = true only if the payload's first
\* code point is U+2063, followed by exactly 192 bit code points and then
\* U+2064, and the header unpacks to version 1; every other payload (start
\* sentinel never followed by an end sentinel, sentinel not first) is reported
\* with metadata_valid = false and false_positive_rate = 1.0.
C28_ValidOnlyIfWellFormed ==
  (gwde.kind = "text" /\ gwde.pc = "detected") =>
    /\ gwde.detection.metadata_valid =>
         /\ WellFormedHeader(gwde.subject)
         /\ DecodeMetadata(gwde.subject).meta.version = U32(1)
    /\ ~WellFormedHeader(gwde.subject) =>
         /\ ~gwde.detection.metadata_valid
         /\ gwde.detection.false_positive_rate = FpOne

-----------------------------------------------------------------------------
(* the metadata wire format on its own: pack to bits, repack and unpack *)

\* values whose bytes all differ, whose bytes are all 0xFF, and small values
VersionInputs == {U32(0), U32(1), <<772, 258>>, <<65535, 65535>>}

SeedInputs == {Word(0), <<1800, 1286, 772, 258>>, <<65535, 65535, 65535, 65535>>}

HashInputs == {Word(1), <<4112, 3598, 3084, 2570>>, <<0, 0, 0, 32768>>}

LengthInputs == {U32(0), U32(2), <<5140, 4626>>, <<0, 32768>>}

InitMetadata ==
  /\ NoCoordinator
  /\ shamir = NoShamir
  /\ gwde = NoWatermark
  /\ \E version \in VersionInputs, state_seed \in SeedInputs,
        key_hash \in HashInputs, fingerprint_length \in LengthInputs :
       caller = [pc |-> "new",
                 meta |-> [version |-> version, state_seed |-> state_seed,
                           key_hash |-> key_hash,
                           fingerprint_length |-> fingerprint_length],
                 bytes |-> <<>>, bits |-> <<>>, repacked |-> <<>>,
                 unpacked |-> [has_value |-> FALSE, value |-> DefaultMetadata]]

\* bytes = PackMetadata(meta), expanded to bits as EncodeMetadata and
\* InjectMetadata do
MetadataPackCall ==
  /\ caller.pc = "new"
  /\ LET bytes == PackMetadata(caller.meta)
     IN  caller' = [caller EXCEPT !.pc = "packed", !.bytes = bytes,
                                  !.bits = BytesToBits(bytes, 1)]
  /\ UNCHANGED library_vars

\* the bits repacked as DecodeMetadata and ExtractMetadata do, then
\* UnpackMetadata
MetadataUnpackCall ==
  /\ caller.pc = "packed"
  /\ LET bytes == BitsToBytes(caller.bits)
     IN  caller' = [caller EXCEPT !.pc = "unpacked", !.repacked = bytes,
                                  !.unpacked = UnpackMetadata(bytes)]
  /\ UNCHANGED library_vars

NextMetadata == MetadataPackCall \/ MetadataUnpackCall

SpecMetadata == InitMetadata /\ [][NextMetadata]_vars

\* the j-th byte of a value held in 16-bit limbs, j = 0 the least significant
ByteOfValue(value, j) ==
  IF j % 2 = 0 THEN value[(j \div 2) + 1] % 256
  ELSE value[(j \div 2) + 1] \div 256

\* the n bytes of a value, most significant first
BigEndian(value, n) == Eager([k \in 1..n |-> ByteOfValue(value, n - k)])

\* C22: PackMetadata yields exactly 24 bytes, big-endian, in the order
\* version (32 bits), state_seed (64), key_hash (64), fingerprint_length (32);
\* expanding them MSB-first to 192 bits and repacking the bits MSB-first, then
\* UnpackMetadata, returns the original four fields.
C22_MetadataRoundTrip ==
  /\ caller.pc \in {"packed", "unpacked"} =>
       /\ Len(caller.bytes) = 24
       /\ caller.bytes
            = BigEndian(caller.meta.version, 4)
                \o BigEndian(caller.meta.state_seed, 8)
                \o BigEndian(caller.meta.key_hash, 8)
                \o BigEndian(caller.meta.fingerprint_length, 4)
       /\ Len(caller.bits) = 192
       /\ \A k \in 1..24, j \in 0..7 :
            caller.bits[8 * (k - 1) + j + 1]
              = (caller.bytes[k] \div (2 ^ (7 - j))) % 2
  /\ caller.pc = "unpacked" =>
       /\ caller.repacked = caller.bytes
       /\ caller.unpacked.has_value
       /\ caller.unpacked.value = caller.meta

\* C22 witness: metadata whose twenty-four bytes are all different from their
\* neighbours has been packed, expanded, repacked and unpacked
C22_Witness ==
  /\ caller.pc = "unpacked"
  /\ caller.meta.version = <<772, 258>>
  /\ caller.meta.state_seed = <<1800, 1286, 772, 258>>
  /\ caller.meta.key_hash = <<4112, 3598, 3084, 2570>>
  /\ caller.meta.fingerprint_length = <<5140, 4626>>
  /\ caller.bytes[1] = 1 /\ caller.bytes[4] = 4 /\ caller.bytes[5] = 1
  /\ caller.bytes[12] = 8 /\ caller.bytes[13] = 10 /\ caller.bytes[24] = 20
  /\ caller.unpacked.value = caller.meta

-----------------------------------------------------------------------------
(* a text caller that adds a bit code point to the watermarked text *)

\* texts of spaces and letters: every code point is one byte
PlainTexts == {text \in ShortTexts : \A k \in 1..Len(text) : text[k] \in {32, 97}}

InitInsert ==
  /\ NoFtma
  /\ \E payload \in PlainTexts, key \in Keys, state_seed \in StateSeeds :
       gwde = Caller("text", payload, key, state_seed)

\* the offsets of the watermarked text at which the caller adds a bit code
\* point: before the first token (right after the header, at offset) and
\* right after a bit code point that is already there
InsertPoints(payload, offset) ==
  {offset}
    \cup {i + 3 : i \in {j \in offset..(Len(payload) - 3) :
                           ThreeBytesAt(payload, j)
                             \in {EncodeCodePoint(kZeroWidthZero),
                                  EncodeCodePoint(kZeroWidthOne)}}}

\* the caller writes U+200B (bit = 0) or U+200C (bit = 1) into the
\* watermarked text at one of these offsets
TextInsertCall(bit) ==
  /\ gwde.kind = "text" /\ gwde.pc = "embedded" /\ gwde.tamper = "none"
  /\ \E at \in InsertPoints(gwde.subject, Len(EncodeMetadata(DefaultMetadata))) :
       gwde' = [gwde EXCEPT
                  !.tamper = "insert", !.at = at,
                  !.subject =
                    SubSeq(gwde.subject, 1, at)
                      \o EncodeCodePoint(IF bit = 1 THEN kZeroWidthOne
                                         ELSE kZeroWidthZero)
                      \o SubSeq(gwde.subject, at + 1, Len(gwde.subject))]
  /\ UNCHANGED ftma_vars

NextInsert ==
  \/ TextEmbedCall
  \/ \E bit \in {0, 1} : TextInsertCall(bit)
  \/ TextDetectCall

SpecInsert == InitInsert /\ [][NextInsert]_vars

\* the scan of Detect from offset i, keeping the offset of each bit code
\* point it extracts instead of its value
RECURSIVE ExtractOffsets(_, _, _, _, _)
ExtractOffsets(payload, i, num_tokens, token_index, offsets) ==
  IF i >= Len(payload) THEN offsets
  ELSE LET unit == DecodeOrByte(payload, i)
       IN  IF ~IsSpace(payload[i + 1])
                /\ (unit.cp = kZeroWidthZero \/ unit.cp = kZeroWidthOne)
                /\ token_index < num_tokens
             THEN ExtractOffsets(payload, i + unit.consumed, num_tokens,
                                 token_index + 1, Append(offsets, i))
             ELSE ExtractOffsets(payload, i + unit.consumed, num_tokens,
                                 token_index, offsets)

\* the offsets of the bit code points Detect extracts from payload
ExtractedAt(payload) ==
  LET offset == DecodeMetadata(payload).offset
  IN  ExtractOffsets(payload, offset,
                     Len(TokensOf(SubSeq(payload, offset + 1, Len(payload)))),
                     0, <<>>)

\* the number of tokens of the text that begin before offset at
TokensBegunBefore(payload, at) ==
  Len(TokensOf(SubSeq(payload, DecodeMetadata(payload).offset + 1, at)))

\* C29: text Detect extracts at most one fingerprint bit per token boundary:
\* the k-th extracted bit is a bit code point located after the k-th token and
\* before the next one, also when the payload carries several bit code points
\* after the same token or bit code points before the first token.
C29_OneBitPerBoundary ==
  (gwde.kind = "text" /\ gwde.pc = "detected"
     /\ gwde.detection.metadata_valid /\ gwde.detection.raised = "none") =>
    \A k \in 1..Len(ExtractedAt(gwde.subject)) :
      TokensBegunBefore(gwde.subject, ExtractedAt(gwde.subject)[k]) = k

-----------------------------------------------------------------------------
(* Claims C31..C33 *)

\* C31: after any sequence of RegisterClient calls, every client j other than
\* a registered client d holds a share of d (j registered or not), no client
\* holds a share of itself, and incoming_shares has entries for registered
\* originators only; so a Finalize that passed the checks of its active list
\* never fails for insufficient shares, nor for no registered participants.
C31_SharesHeld ==
  /\ \A d \in Registered : \A j \in ClientIds \ {d} :
       /\ d \in DOMAIN clients_[j].incoming_shares
       /\ Len(clients_[j].incoming_shares[d]) = vector_dimension_
  /\ \A j \in ClientIds :
       /\ j \notin DOMAIN clients_[j].incoming_shares
       /\ DOMAIN clients_[j].incoming_shares \subseteq Registered
  /\ (last.op = "finalize"
        /\ last.error \notin {"below_threshold", "not_registered"}) =>
       /\ last.error \notin {"insufficient_shares", "no_participants"}
       /\ last.error = "none"

\* C31 witness: a Finalize on distinct clients returned after reconstructing
\* the mask of a registered client that was not active, from shares the
\* active clients held
C31_Witness ==
  /\ last.op = "finalize"
  /\ last.error = "none"
  /\ Distinct(last.active)
  /\ \E d \in Registered \ ActiveSet(last.active) :
       /\ d \in DOMAIN last.reconstructed
       /\ \A j \in ActiveSet(last.active) :
            d \in DOMAIN clients_[j].incoming_shares

-----------------------------------------------------------------------------
(* two runs: a program finalizes on one coordinator, then constructs a second
   one, registers the same clients with the same metrics in any order and
   finalizes with the same active ids in any order *)

InitTwoRuns ==
  /\ InitCoordinator(SpecShape)
  /\ caller = [pc |-> "first", metrics |-> <<>>, active |-> <<>>,
               aggregate |-> <<>>, result |-> NoResult]

\* active lists of up to two ids, repeats allowed
PairLists == UNION {[1..n -> ClientIds] : n \in 0..2}

\* the lists with the entries of list in any order
Reorderings(list) ==
  {Eager([k \in 1..Len(list) |-> list[order[k]]]) :
     order \in {f \in [1..Len(list) -> 1..Len(list)] :
                  \A i, j \in 1..Len(list) : i # j => f[i] # f[j]}}

\* the program keeps what the first run's Finalize returned and who had
\* registered with which metrics, and constructs the second coordinator with
\* the same parameters; std::random_device seeds its prng_
SecondRun ==
  /\ caller.pc = "first"
  /\ last.op = "finalize" /\ last.error = "none"
  /\ caller' = [pc |-> "second",
                metrics |-> [id \in Registered |-> clients_[id].original_metrics],
                active |-> last.active,
                aggregate |-> last.aggregate,
                result |-> last.result]
  /\ clients_' = [id \in ClientIds |-> NewClientState]
  /\ prng_' \in 0..MaxSeed
  /\ last' = CallRecord("idle", 0, <<>>, <<>>, "none")
  /\ UNCHANGED <<num_clients_, threshold_, metric_dimension_, scale_, shamir,
                 gwde>>

NextTwoRuns ==
  \/ /\ caller.pc = "first"
     /\ \E client_id \in ClientIds, metrics \in MetricVectors :
          RegisterClient(client_id, metrics)
  \/ /\ caller.pc = "first"
     /\ \E active_clients \in PairLists : Finalize(active_clients)
  \/ SecondRun
  \/ /\ caller.pc = "second"
     /\ \E client_id \in DOMAIN caller.metrics :
          RegisterClient(client_id, caller.metrics[client_id])
  \/ /\ caller.pc = "second"
     /\ Registered = DOMAIN caller.metrics
     /\ \E active_clients \in Reorderings(caller.active) :
          Finalize(active_clients)
  \/ Return

SpecTwoRuns == InitTwoRuns /\ [][NextTwoRuns]_vars

\* C32: the result of Finalize is a function only of the registered clients
\* with their metrics and of the active clients: a second run that registers
\* the same clients with the same metrics in another order, with other random
\* personal masks and Shamir coefficients, and passes the same active ids in
\* another list order, returns the same field aggregate and the same
\* AggregationResult as the first.
C32_SameResultInBothRuns ==
  (caller.pc = "second" /\ last.op = "finalize") =>
    /\ last.error = "none"
    /\ last.aggregate = caller.aggregate
    /\ last.result = caller.result

-----------------------------------------------------------------------------
(* what text Embed writes *)

BitCodePoints ==
  {EncodeCodePoint(kZeroWidthZero), EncodeCodePoint(kZeroWidthOne)}

\* the offsets, in order, of the bit code points of text after its header
BitOffsetsAfterHeader(text) ==
  SelectSeq(Eager([j \in 1..(Len(text) - 2) |-> j - 1]),
            LAMBDA j : /\ j >= 3 * (kMetadataBits + 2)
                       /\ ThreeBytesAt(text, j) \in BitCodePoints)

\* the bits these code points stand for
BitsAfterHeader(text) ==
  LET offsets == BitOffsetsAfterHeader(text)
  IN  Eager([k \in 1..Len(offsets) |->
        IF ThreeBytesAt(text, offsets[k]) = EncodeCodePoint(kZeroWidthOne)
          THEN 1 ELSE 0])

\* the bit code point at offset j comes directly after a byte of a token and
\* before whitespace or the end of the text
DirectlyAfterToken(text, j) ==
  /\ j > 3 * (kMetadataBits + 2)
  /\ ~IsSpace(text[j])
  /\ j + 3 = Len(text) \/ IsSpace(text[j + 4])

\* the output is the header, then the cleaned text with one bit code point
\* directly after each token, equal in order to fingerprint_bits
OneBitAfterEachToken(result, cleaned) ==
  LET text == result.watermarked_text
      offsets == BitOffsetsAfterHeader(text)
  IN  /\ WellFormedHeader(text)
      /\ SubSeq(text, 1, 3 * (kMetadataBits + 2))
           = EncodeMetadata(result.metadata)
      /\ Len(offsets) = Len(Tokenize(cleaned))
      /\ BitsAfterHeader(text) = result.fingerprint_bits
      /\ \A k \in 1..Len(offsets) : DirectlyAfterToken(text, offsets[k])
      /\ Len(text) = 3 * (kMetadataBits + 2) + Len(cleaned) + 3 * Len(offsets)

\* C33: text Embed preserves the visible text and ignores zero-width code
\* points already there: strip_zero_width(Embed(payload).watermarked_text)
\* = strip_zero_width(payload); the output is the 192-bit header followed by
\* the cleaned text with exactly one bit code point directly after each token,
\* equal in order to fingerprint_bits; and Embed(payload) =
\* Embed(strip_zero_width(payload)).
C33_EmbedPreservesText ==
  (gwde.kind = "text" /\ gwde.pc = "embedded" /\ gwde.tamper = "none") =>
    /\ StripZeroWidth(gwde.embed.watermarked_text)
         = StripZeroWidth(gwde.payload)
    /\ OneBitAfterEachToken(gwde.embed, StripZeroWidth(gwde.payload))
    /\ gwde.embed
         = TextEmbed(StripZeroWidth(gwde.payload), gwde.key, gwde.state_seed)

====
